---------------------------- MODULE Spec2Model ----------------------------
(***************************************************************************)
(* A model of xlcalculator's reference resolution and dependency-graph     *)
(* construction: utils.py (Range Expander, Structured Reference Resolver)  *)
(* and model.py (Model, ModelCompiler.build_ranges).                       *)
(*                                                                         *)
(* Python strings are TLA+ strings; TLC evaluates Len, \o, SubSeq, Head    *)
(* and Tail on them.  Python's None is the string None where a string is   *)
(* expected and NoneInt where an integer is expected.  A Python exception  *)
(* is a record [ok |-> FALSE, err |-> <exception class>].                  *)
(***************************************************************************)
EXTENDS Integers, Sequences, FiniteSets, TLC

None == "<None>"
NoneInt == -1

Max(a, b) == IF a >= b THEN a ELSE b
Min(a, b) == IF a <= b THEN a ELSE b

(***************************************************************************)
(* Python str primitives.                                                  *)
(***************************************************************************)
CharAt(s, i) == SubSeq(s, i, i)

\* c in s, for a one-character c
HasChar(s, c) == \E i \in 1..Len(s) : CharAt(s, i) = c

\* sub in s
Contains(s, sub) ==
    \E i \in 1..(Len(s) - Len(sub) + 1) : SubSeq(s, i, i + Len(sub) - 1) = sub

\* s.find(sub) as a 1-based index, 0 when sub does not occur
Find(s, sub) ==
    LET hits == {i \in 1..(Len(s) - Len(sub) + 1) :
                    SubSeq(s, i, i + Len(sub) - 1) = sub}
    IN IF hits = {} THEN 0 ELSE CHOOSE i \in hits : \A j \in hits : i <= j

\* s.rfind(sub) as a 1-based index, 0 when sub does not occur
RFind(s, sub) ==
    LET hits == {i \in 1..(Len(s) - Len(sub) + 1) :
                    SubSeq(s, i, i + Len(sub) - 1) = sub}
    IN IF hits = {} THEN 0 ELSE CHOOSE i \in hits : \A j \in hits : i >= j

StartsWith(s, p) == Len(s) >= Len(p) /\ SubSeq(s, 1, Len(p)) = p
EndsWith(s, p) == Len(s) >= Len(p) /\ SubSeq(s, Len(s) - Len(p) + 1, Len(s)) = p

RECURSIVE LStrip(_)
LStrip(s) == IF Len(s) > 0 /\ CharAt(s, 1) = " " THEN LStrip(Tail(s)) ELSE s

RECURSIVE RStrip(_)
RStrip(s) ==
    IF Len(s) > 0 /\ CharAt(s, Len(s)) = " "
    THEN RStrip(SubSeq(s, 1, Len(s) - 1)) ELSE s

\* s.strip()
Strip(s) == RStrip(LStrip(s))

\* s.split(sep): the sequence of the pieces between the occurrences of sep
RECURSIVE Split(_, _)
Split(s, sep) ==
    LET i == Find(s, sep)
    IN IF i = 0 THEN <<s>>
       ELSE <<SubSeq(s, 1, i - 1)>> \o Split(SubSeq(s, i + Len(sep), Len(s)), sep)

\* s.split(sep, 1)
Split1(s, sep) ==
    LET i == Find(s, sep)
    IN IF i = 0 THEN <<s>>
       ELSE <<SubSeq(s, 1, i - 1), SubSeq(s, i + Len(sep), Len(s))>>

\* s.rsplit(sep, 1)[-1]
RSplit1Last(s, sep) ==
    LET i == RFind(s, sep)
    IN IF i = 0 THEN s ELSE SubSeq(s, i + Len(sep), Len(s))

\* s.replace(old, new)
RECURSIVE Replace(_, _, _)
Replace(s, old, new) ==
    LET i == Find(s, old)
    IN IF i = 0 THEN s
       ELSE SubSeq(s, 1, i - 1) \o new
            \o Replace(SubSeq(s, i + Len(old), Len(s)), old, new)

Digits == "0123456789"
UpperLetters == "ABCDEFGHIJKLMNOPQRSTUVWXYZ"
LowerLetters == "abcdefghijklmnopqrstuvwxyz"

IsDigit(c) == Len(c) = 1 /\ HasChar(Digits, c)
IsLetter(c) == Len(c) = 1 /\ (HasChar(UpperLetters, c) \/ HasChar(LowerLetters, c))

\* str(n) for n >= 0
RECURSIVE IntToStr(_)
IntToStr(n) ==
    IF n < 10 THEN CharAt(Digits, n + 1)
    ELSE IntToStr(n \div 10) \o CharAt(Digits, (n % 10) + 1)

\* int(s) for a string of digits
RECURSIVE StrToInt(_)
StrToInt(s) ==
    IF Len(s) = 0 THEN 0
    ELSE 10 * StrToInt(SubSeq(s, 1, Len(s) - 1))
         + (Find(Digits, CharAt(s, Len(s))) - 1)


(***************************************************************************)
(* openpyxl.utils.cell, as imported by utils.py.                           *)
(***************************************************************************)
MAX_COL == 18278
MAX_ROW == 1048576

LetterValue(c) ==
    IF HasChar(UpperLetters, c) THEN Find(UpperLetters, c) ELSE Find(LowerLetters, c)

\* column_index_from_string: base-26 value of one to three letters
RECURSIVE column_index_from_string(_)
column_index_from_string(s) ==
    IF Len(s) = 0 THEN 0
    ELSE 26 * column_index_from_string(SubSeq(s, 1, Len(s) - 1))
         + LetterValue(CharAt(s, Len(s)))

\* get_column_letter for 1 <= idx <= MAX_COL
RECURSIVE ColumnLetters(_)
ColumnLetters(idx) ==
    IF idx <= 0 THEN ""
    ELSE LET rem == IF idx % 26 = 0 THEN 26 ELSE idx % 26
             rest == IF idx % 26 = 0 THEN (idx \div 26) - 1 ELSE idx \div 26
         IN ColumnLetters(rest) \o CharAt(UpperLetters, rem)

get_column_letter(idx) ==
    IF idx < 1 \/ idx > MAX_COL
    THEN [ok |-> FALSE, err |-> "ValueError", val |-> ""]
    ELSE [ok |-> TRUE, err |-> "", val |-> ColumnLetters(idx)]

SkipDollar(s, p) == IF p <= Len(s) /\ CharAt(s, p) = "$" THEN p + 1 ELSE p

\* the position after at most n letters starting at p
RECURSIVE LettersEnd(_, _, _)
LettersEnd(s, p, n) ==
    IF n > 0 /\ p <= Len(s) /\ IsLetter(CharAt(s, p))
    THEN LettersEnd(s, p + 1, n - 1) ELSE p

\* the position after the digits starting at p
RECURSIVE DigitsEnd(_, _)
DigitsEnd(s, p) ==
    IF p <= Len(s) /\ IsDigit(CharAt(s, p)) THEN DigitsEnd(s, p + 1) ELSE p

\* one side of RANGE_EXPR, [$]?(col)?[$]?(row)?, matched from position p: the
\* two groups ("" for a group that matched nothing) and the position after them
RangeSide(s, p) ==
    LET p1 == SkipDollar(s, p)
        p2 == LettersEnd(s, p1, 3)
        p3 == SkipDollar(s, p2)
        p4 == DigitsEnd(s, p3)
    IN [col |-> SubSeq(s, p1, p2 - 1), row |-> SubSeq(s, p3, p4 - 1), next |-> p4]

BoundsError ==
    [ok |-> FALSE, err |-> "ValueError", min_col |-> NoneInt, min_row |-> NoneInt,
     max_col |-> NoneInt, max_row |-> NoneInt]

\* whether the separator group of RANGE_EXPR follows the first side a
HasSeparator(s, a) == a.next <= Len(s) /\ CharAt(s, a.next) = ":"

\* the second side of RANGE_EXPR, after the first side a
SecondSide(s, a) ==
    IF HasSeparator(s, a) THEN RangeSide(s, a.next + 1)
    ELSE [col |-> "", row |-> "", next |-> a.next]

ColumnOrNone(col) == IF col = "" THEN NoneInt ELSE column_index_from_string(col)
RowOrNone(row) == IF row = "" THEN NoneInt ELSE StrToInt(row)

\* range_boundaries once ABSOLUTE_RE matched the sides a and b (sep: with the
\* separator between them)
BoundsOfSides(s, a, sep, b) ==
    IF b.next /= Len(s) + 1 THEN BoundsError
    ELSE IF sep /\ ~( (a.col /= "" /\ b.col /= "" /\ a.row /= "" /\ b.row /= "")
                      \/ (a.col /= "" /\ b.col /= "" /\ a.row = "" /\ b.row = "")
                      \/ (a.row /= "" /\ b.row /= "" /\ a.col = "" /\ b.col = "") )
    THEN BoundsError
    ELSE [ok |-> TRUE, err |-> "",
          min_col |-> ColumnOrNone(a.col),
          min_row |-> RowOrNone(a.row),
          max_col |-> ColumnOrNone(IF b.col /= "" THEN b.col ELSE a.col),
          max_row |-> RowOrNone(IF b.row /= "" THEN b.row ELSE a.row)]

BoundsFromFirstSide(s, a) == BoundsOfSides(s, a, HasSeparator(s, a), SecondSide(s, a))

\* range_boundaries(range_string): (min_col, min_row, max_col, max_row), NoneInt
\* for a bound the string leaves open
range_boundaries(s) == BoundsFromFirstSide(s, RangeSide(s, 1))

\* Python's "x or d" on an optional integer: None and 0 both give d
OrElse(x, d) == IF x = NoneInt \/ x = 0 THEN d ELSE x

(***************************************************************************)
(* utils.py: the Range Expander.                                           *)
(***************************************************************************)
\* whether s is the inside of a quoted sheet title: ([^']|'')*
RECURSIVE QuotedInner(_)
QuotedInner(s) ==
    IF Len(s) = 0 THEN TRUE
    ELSE IF CharAt(s, 1) /= "'" THEN QuotedInner(Tail(s))
    ELSE Len(s) >= 2 /\ CharAt(s, 2) = "'" /\ QuotedInner(SubSeq(s, 3, Len(s)))

SheetOfStripped(s) ==
    IF Len(s) >= 2 /\ CharAt(s, 1) = "'" /\ CharAt(s, Len(s)) = "'"
       /\ QuotedInner(SubSeq(s, 2, Len(s) - 1))
    THEN SubSeq(s, 2, Len(s) - 1)
    ELSE s

resolve_sheet(sheet_str) == SheetOfStripped(Strip(sheet_str))

\* the defaults without line 78's sheet_max_row: the ceiling alone
ApplyDefaultsCeiling(b, sheet_max_row) ==
    IF ~b.ok THEN b
    ELSE [b EXCEPT !.min_col = OrElse(b.min_col, 1),
                   !.min_row = OrElse(b.min_row, 1),
                   !.max_col = OrElse(b.max_col, MAX_COL),
                   !.max_row = OrElse(b.max_row, MAX_ROW)]

\* the defaults of lines 75-78 on the bounds b of a fragment
ApplyDefaults(b, sheet_max_row) ==
    IF ~b.ok THEN b
    ELSE [b EXCEPT !.min_col = OrElse(b.min_col, 1),
                   !.min_row = OrElse(b.min_row, 1),
                   !.max_col = OrElse(b.max_col, MAX_COL),
                   !.max_row = OrElse(b.max_row, OrElse(sheet_max_row, MAX_ROW))]

FragmentBounds(rng, sheet_max_row) == ApplyDefaults(range_boundaries(rng), sheet_max_row)

RangesError(e) == [ok |-> FALSE, err |-> e, sheet |-> None, rows |-> {}, cells |-> {}]

\* lines 72-84: the cells of a fragment with bounds b are added to range_cells,
\* kept as the rows touched and the (row, col) pairs added
AddFragment(acc, sheet, b) ==
    IF ~b.ok THEN RangesError("ValueError")
    ELSE [ok |-> TRUE, err |-> "", sheet |-> sheet,
          rows |-> acc.rows \cup (b.min_row .. b.max_row),
          cells |-> acc.cells \cup
                    ((b.min_row .. b.max_row) \X (b.min_col .. b.max_col))]

\* lines 65-71 without the check of line 66: the last qualifier wins
SheetStepLast(acc, rng_sheet, b) == AddFragment(acc, rng_sheet, b)

\* lines 65-71: the sheet of a qualified fragment must be the sheet seen so far
SheetStep(acc, rng_sheet, b) ==
    IF acc.sheet /= None /\ acc.sheet /= rng_sheet THEN RangesError("ValueError")
    ELSE AddFragment(acc, rng_sheet, b)

\* line 64: sheet_str, rng = rng.split('!')
QualifiedStep(acc, parts, sheet_max_row) ==
    IF Len(parts) /= 2 THEN RangesError("ValueError")
    ELSE SheetStep(acc, resolve_sheet(parts[1]), FragmentBounds(parts[2], sheet_max_row))

\* one iteration of the loop over ranges.split(','); acc is (sheet, range_cells)
RangesStep(acc, frag, sheet_max_row) ==
    IF HasChar(frag, "!") THEN QualifiedStep(acc, Split(frag, "!"), sheet_max_row)
    ELSE AddFragment(acc, acc.sheet, FragmentBounds(frag, sheet_max_row))

RECURSIVE RangesFold(_, _, _)
RangesFold(acc, frags, sheet_max_row) ==
    IF Len(frags) = 0 \/ ~acc.ok THEN acc
    ELSE RangesFold(RangesStep(acc, Head(frags), sheet_max_row), Tail(frags),
                    sheet_max_row)

\* sorted(S) for a finite set of integers
RECURSIVE Sorted(_)
Sorted(S) ==
    IF S = {} THEN <<>>
    ELSE LET m == CHOOSE x \in S : \A y \in S : x <= y
         IN <<m>> \o Sorted(S \ {m})

\* the columns range_cells holds for row r, sorted
SortedColumns(acc, r) == Sorted({p[2] : p \in {q \in acc.cells : q[1] = r}})

\* one row of the matrix: the addresses of the columns cs in row r
MatrixRow(sheet_str, r, cs) ==
    [j \in 1..Len(cs) |-> sheet_str \o ColumnLetters(cs[j]) \o IntToStr(r)]

\* lines 89-95: the matrix, its rows being rowSeq
Matrix(acc, sheet_str, rowSeq) ==
    [i \in 1..Len(rowSeq) |->
        MatrixRow(sheet_str, rowSeq[i], SortedColumns(acc, rowSeq[i]))]

\* line 88: sheet + '!' if sheet else ''
SheetPrefix(sheet) == IF sheet /= "" /\ sheet /= None THEN sheet \o "!" ELSE ""

\* lines 86-95 for the sheet the result carries
SheetMatrix(acc, sheet) ==
    [ok |-> TRUE, err |-> "", sheet |-> sheet,
     cells |-> Matrix(acc, SheetPrefix(sheet), Sorted(acc.rows))]

MatrixOf(acc, default_sheet) ==
    IF ~acc.ok THEN [ok |-> FALSE, err |-> acc.err, sheet |-> None, cells |-> <<>>]
    ELSE SheetMatrix(acc, IF acc.sheet = None THEN default_sheet ELSE acc.sheet)

\* resolve_ranges(ranges, default_sheet, sheet_max_row): the sheet and the matrix
resolve_ranges(ranges, default_sheet, sheet_max_row) ==
    MatrixOf(RangesFold([ok |-> TRUE, err |-> "", sheet |-> None, rows |-> {},
                         cells |-> {}],
                        Split(ranges, ","), sheet_max_row),
             default_sheet)

(***************************************************************************)
(* utils.py: the Structured Reference Resolver.                            *)
(*                                                                         *)
(* tables is the tables dict as the sequence of its entries in insertion   *)
(* order; an entry is [name, sheet, cell_range, columns, header_row_count, *)
(* has_totals_row], name being the dict key.                               *)
(***************************************************************************)
Raise(e) == [ok |-> FALSE, err |-> e, val |-> ""]
Return(v) == [ok |-> TRUE, err |-> "", val |-> v]

ParseError(e) == [ok |-> FALSE, err |-> e, sheet |-> None, table |-> "", specifier |-> ""]

\* the groups of the match: the sheet ends at the "!" at j when the prefix has
\* one with text on both sides
ParsedGroups(prefix, j, specifier) ==
    [ok |-> TRUE, err |-> "",
     sheet |-> IF j > 1 /\ j < Len(prefix) THEN SubSeq(prefix, 1, j - 1) ELSE None,
     table |-> IF j > 1 /\ j < Len(prefix) THEN SubSeq(prefix, j + 1, Len(prefix))
               ELSE prefix,
     specifier |-> specifier]

\* the match of the pattern, prefix being what precedes the first "[" (at i)
MatchPrefix(term, i, prefix) ==
    IF i <= 1 \/ ~EndsWith(term, "]") \/ Len(term) < i + 1 \/ HasChar(prefix, "]")
    THEN ParseError("InvalidTableReferenceError")
    ELSE ParsedGroups(prefix, Find(prefix, "!"),
                      Strip(SubSeq(term, i + 1, Len(term) - 1)))

MatchFrom(term, i) == MatchPrefix(term, i, SubSeq(term, 1, i - 1))

\* _parse_table_range: ^(?:(sheet)!)?(table)\[(specifier)\]$ where sheet is
\* [^!\[\]]+ and table is [^\[\]]+
_parse_table_range(term) == MatchFrom(term, Find(term, "["))

\* a part is kept when it is bracketed
KeepStripped(parts, part) ==
    IF StartsWith(part, "[") /\ EndsWith(part, "]") THEN Append(parts, part)
    ELSE parts

KeepPart(parts, current) == KeepStripped(parts, Strip(current))

\* the depth after char
DepthAfter(depth, char) ==
    IF char = "[" THEN depth + 1 ELSE IF char = "]" THEN depth - 1 ELSE depth

\* the loop of _extract_table_specifiers from character p on
RECURSIVE ExtractLoop(_, _, _, _, _)
ExtractLoop(s, p, depth, current, parts) ==
    IF p > Len(s) THEN KeepPart(parts, current)
    ELSE IF CharAt(s, p) = "," /\ depth = 0
    THEN ExtractLoop(s, p + 1, depth, "", KeepPart(parts, current))
    ELSE ExtractLoop(s, p + 1, DepthAfter(depth, CharAt(s, p)),
                     current \o CharAt(s, p), parts)

PartsOrWhole(table_specifier, parts) ==
    IF Len(parts) = 0 THEN <<table_specifier>> ELSE parts

_extract_table_specifiers(table_specifier) ==
    PartsOrWhole(table_specifier, ExtractLoop(table_specifier, 1, 0, "", <<>>))

SpecifierError(e) == [ok |-> FALSE, err |-> e, start_col |-> None, end_col |-> None,
                      item |-> None]

\* lines 225-226
StripBrackets(specifier) ==
    IF StartsWith(specifier, "[") /\ EndsWith(specifier, "]")
    THEN SubSeq(specifier, 2, Len(specifier) - 1) ELSE specifier

\* line 236: start_col, end_col = specifier.split("]:[")
ColumnRange(cols) ==
    IF Len(cols) /= 2 THEN SpecifierError("ValueError")
    ELSE [ok |-> TRUE, err |-> "", start_col |-> cols[1], end_col |-> cols[2],
          item |-> None]

\* lines 229-242, on the specifier without its brackets
ParseStripped(inner) ==
    IF inner = "" THEN SpecifierError("IndexError")
    ELSE IF CharAt(inner, 1) = "#"
    THEN [ok |-> TRUE, err |-> "", start_col |-> None, end_col |-> None,
          item |-> SubSeq(inner, 2, Len(inner))]
    ELSE IF Contains(inner, "]:[") THEN ColumnRange(Split(inner, "]:["))
    ELSE [ok |-> TRUE, err |-> "", start_col |-> inner, end_col |-> inner,
          item |-> None]

\* _parse_specifier: (start_col, end_col) and the item specifier it appends
\* (item, None when it appends none)
_parse_specifier(specifier) ==
    IF specifier = ""
    THEN [ok |-> TRUE, err |-> "", start_col |-> None, end_col |-> None, item |-> None]
    ELSE ParseStripped(StripBrackets(specifier))

SpecialChars == {"[", "]", "'", "#", "@"}

RECURSIVE SanitizeFrom(_, _)
SanitizeFrom(column_name, i) ==
    IF i > Len(column_name) THEN ""
    ELSE IF CharAt(column_name, i) = "'" /\ i < Len(column_name)
            /\ CharAt(column_name, i + 1) \in SpecialChars
    THEN SanitizeFrom(column_name, i + 1)
    ELSE CharAt(column_name, i) \o SanitizeFrom(column_name, i + 1)

_sanitize_table_column_name(column_name) == SanitizeFrom(column_name, 1)

HasTable(tables, name) == \E i \in 1..Len(tables) : tables[i].name = name

TableAt(tables, name) ==
    tables[CHOOSE i \in 1..Len(tables) : tables[i].name = name]

\* line 369-370 on the two parts of name.split("_", 1)
PartsMatch(parts, sheet, table_name) == parts[1] = table_name /\ sheet = parts[2]

\* whether the table registered as name is table_name renamed for its sheet
TranslatedMatch(name, sheet, table_name) ==
    HasChar(name, "_") /\ PartsMatch(Split1(name, "_"), sheet, table_name)

\* the first entry of tables.items() among hits, if any
FirstTranslated(tables, hits) ==
    IF hits /= {} THEN Return(tables[CHOOSE i \in hits : \A j \in hits : i <= j].name)
    ELSE Raise("TableNotFoundError")

_translate_table_name(table_name, tables) ==
    IF HasTable(tables, table_name) THEN Return(table_name)
    ELSE FirstTranslated(tables,
             {i \in 1..Len(tables) :
                 TranslatedMatch(tables[i].name, tables[i].sheet, table_name)})

\* the last data row: max_row - 1 if has_totals_row else max_row
DataMaxRow(t, max_row) == IF t.has_totals_row THEN max_row - 1 ELSE max_row

\* the state of the loop over item_specifiers: the fixed and the temporary bounds,
\* the exception raised ("" for none) and whether the loop was left by break
BoundsInit(min_row, max_row) ==
    [fixed_min_row |-> NoneInt, fixed_max_row |-> NoneInt,
     temp_min_row |-> max_row, temp_max_row |-> min_row, err |-> "", brk |-> FALSE]

\* line 301 without the max(): the header rows' last row overwrites temp_max_row
HeadersTempMaxAssigned(temp_max_row, min_row, t) == min_row + t.header_row_count - 1

\* line 301
HeadersTempMax(temp_max_row, min_row, t) ==
    Max(temp_max_row, min_row + t.header_row_count - 1)

HeadersCase(st, t, min_row, max_row) ==
    IF st.fixed_max_row /= NoneInt
    THEN [st EXCEPT !.err = "InvalidTableReferenceError"]
    ELSE [st EXCEPT !.fixed_min_row = min_row,
                    !.temp_max_row = HeadersTempMax(st.temp_max_row, min_row, t)]

DataCase(st, t, min_row, max_row) ==
    [st EXCEPT !.temp_min_row = Min(st.temp_min_row, min_row + t.header_row_count),
               !.temp_max_row = Max(st.temp_max_row, DataMaxRow(t, max_row))]

\* lines 312-314 once the bounds b of the current cell's coordinate are known
ThisRowBounds(st, b) ==
    IF ~b.ok THEN [st EXCEPT !.err = "ValueError"]
    ELSE [st EXCEPT !.fixed_min_row = b.min_row, !.fixed_max_row = b.max_row,
                    !.brk = TRUE]

ThisRowCase(st, cur_cell_addr) ==
    IF cur_cell_addr = None THEN [st EXCEPT !.err = "InvalidTableReferenceError"]
    ELSE IF st.fixed_min_row /= NoneInt \/ st.fixed_max_row /= NoneInt
    THEN [st EXCEPT !.err = "InvalidTableReferenceError"]
    ELSE ThisRowBounds(st, range_boundaries(RSplit1Last(cur_cell_addr, "!")))

TotalsCase(st, t, min_row, max_row) ==
    IF ~t.has_totals_row THEN [st EXCEPT !.err = "InvalidTableReferenceError"]
    ELSE IF st.fixed_min_row /= NoneInt
    THEN [st EXCEPT !.err = "InvalidTableReferenceError"]
    ELSE [st EXCEPT !.fixed_max_row = max_row,
                    !.temp_min_row = Min(st.temp_min_row, max_row)]

\* the match statement on one item specifier
ItemCase(st, item_specifier, t, min_row, max_row, cur_cell_addr) ==
    CASE item_specifier = "Headers" -> HeadersCase(st, t, min_row, max_row)
      [] item_specifier = "Data" -> DataCase(st, t, min_row, max_row)
      [] item_specifier = "This Row" -> ThisRowCase(st, cur_cell_addr)
      [] item_specifier = "Totals" -> TotalsCase(st, t, min_row, max_row)
      [] OTHER -> [st EXCEPT !.err = "InvalidItemSpecifierError"]

RECURSIVE ItemLoop(_, _, _, _, _, _)
ItemLoop(st, item_specifiers, t, min_row, max_row, cur_cell_addr) ==
    IF Len(item_specifiers) = 0 \/ st.err /= "" \/ st.brk THEN st
    ELSE ItemLoop(ItemCase(st, Head(item_specifiers), t, min_row, max_row,
                           cur_cell_addr),
                  Tail(item_specifiers), t, min_row, max_row, cur_cell_addr)

InSeq(x, q) == \E i \in 1..Len(q) : q[i] = x

\* whether the All shortcut is taken
AllShortcut(item_specifiers) == InSeq("All", item_specifiers)

\* lines 325-326: the bounds the loop leaves
FinalBounds(st) ==
    [err |-> st.err,
     min_row |-> IF st.fixed_min_row = NoneInt THEN st.temp_min_row
                 ELSE st.fixed_min_row,
     max_row |-> IF st.fixed_max_row = NoneInt THEN st.temp_max_row
                 ELSE st.fixed_max_row]

\* the row bounds: [err, min_row, max_row]
RowBounds(item_specifiers, t, min_row, max_row, cur_cell_addr) ==
    IF Len(item_specifiers) = 0
    THEN [err |-> "", min_row |-> min_row + t.header_row_count,
          max_row |-> DataMaxRow(t, max_row)]
    ELSE IF AllShortcut(item_specifiers)
    THEN [err |-> "", min_row |-> min_row, max_row |-> max_row]
    ELSE FinalBounds(ItemLoop(BoundsInit(min_row, max_row), item_specifiers, t,
                              min_row, max_row, cur_cell_addr))

\* the name the k-th column is matched by: a repeated name gets _<count>
CountedName(name, n) == IF n > 1 THEN name \o "_" \o IntToStr(n) ELSE name

EffectiveName(columns, k) ==
    CountedName(columns[k], Cardinality({i \in 1..k : columns[i] = columns[k]}))

\* the index of the last column among hits, NoneInt when there is none
LastHit(hits, min_col) ==
    IF hits = {} THEN NoneInt
    ELSE min_col + (CHOOSE k \in hits : \A j \in hits : k >= j) - 1

\* the index the loop over the columns leaves for col: that of the last column
\* matched, NoneInt when none is
ColumnIndex(columns, col, min_col) ==
    LastHit({k \in 1..Len(columns) : EffectiveName(columns, k) = col}, min_col)

\* str(row) of an optional row
RowStr(r) == IF r = NoneInt THEN "None" ELSE IntToStr(r)

FormatLetters(sheet, l1, r1, l2, r2) ==
    IF ~l1.ok \/ ~l2.ok THEN Raise("ValueError")
    ELSE Return(sheet \o "!" \o l1.val \o RowStr(r1) \o ":" \o l2.val \o RowStr(r2))

\* "{sheet}!{col}{row}:{col}{row}"
FormatRange(sheet, c1, r1, c2, r2) ==
    FormatLetters(sheet, get_column_letter(c1), r1, get_column_letter(c2), r2)

\* lines 352-357
ColumnsRange(t, rows, start_col_index, end_col_index) ==
    IF start_col_index = NoneInt THEN Raise("ColumnNotFoundError")
    ELSE IF end_col_index = NoneInt THEN Raise("ColumnNotFoundError")
    ELSE FormatRange(t.sheet, start_col_index, rows.min_row, end_col_index,
                     rows.max_row)

\* lines 329-357 once the row bounds are known
RowsRange(t, b, rows, start_col, end_col) ==
    IF rows.err /= "" THEN Raise(rows.err)
    ELSE IF start_col = None
    THEN FormatRange(t.sheet, b.min_col, rows.min_row, b.max_col, rows.max_row)
    ELSE ColumnsRange(t, rows, ColumnIndex(t.columns, start_col, b.min_col),
                      ColumnIndex(t.columns, end_col, b.min_col))

\* lines 282-357 once the bounds b of the table's cell_range are known
BoundedRange(t, b, start_col, end_col, item_specifiers, cur_cell_addr) ==
    IF ~b.ok THEN Raise(b.err)
    ELSE RowsRange(t, b,
                   RowBounds(item_specifiers, t, b.min_row, b.max_row, cur_cell_addr),
                   start_col, end_col)

\* lines 278-357 for the table t
TableRange(t, start_col, end_col, item_specifiers, cur_cell_addr) ==
    BoundedRange(t, range_boundaries(t.cell_range), start_col, end_col,
                 item_specifiers, cur_cell_addr)

\* lines 274-357 once the table name was translated to tn
TranslatedRange(tn, start_col, end_col, item_specifiers, tables, cur_cell_addr) ==
    IF ~tn.ok THEN Raise(tn.err)
    ELSE TableRange(TableAt(tables, tn.val), start_col, end_col, item_specifiers,
                    cur_cell_addr)

_get_table_range(table_name, start_col, end_col, item_specifiers, tables, cur_cell_addr) ==
    TranslatedRange(_translate_table_name(table_name, tables), start_col,
                    IF end_col = None THEN start_col ELSE end_col,
                    item_specifiers, tables, cur_cell_addr)

\* line 120: the component parsed to r overwrites (start_col, end_col)
ApplySpecifier(acc, r) ==
    IF ~r.ok THEN [acc EXCEPT !.err = r.err]
    ELSE [acc EXCEPT !.start_col = r.start_col, !.end_col = r.end_col,
                     !.item_specifiers = IF r.item = None THEN @ ELSE Append(@, r.item)]

\* the loop over the components
RECURSIVE SpecifierLoop(_, _)
SpecifierLoop(acc, components) ==
    IF Len(components) = 0 \/ acc.err /= "" THEN acc
    ELSE SpecifierLoop(ApplySpecifier(acc, _parse_specifier(Head(components))),
                       Tail(components))

\* what the except clause of resolve_table_ranges raises for an exception of
\* class cls raised inside
Wrap(cls) == "Exception"

\* the outcome of resolve_table_ranges when cls is raised inside
Fail(cls) == [ok |-> FALSE, val |-> "", err |-> Wrap(cls), cause |-> cls]

\* Python truthiness of an optional string
Truthy(s) == s /= None /\ s /= ""

\* lines 123-124
SanitizeIfAny(col) == IF Truthy(col) THEN _sanitize_table_column_name(col) ELSE col

\* lines 136-139
CheckedRange(table_range) ==
    IF ~table_range.ok THEN Fail(table_range.err)
    ELSE IF table_range.val = "" THEN Fail("InvalidTableReferenceError")
    ELSE [ok |-> TRUE, val |-> table_range.val, err |-> "", cause |-> ""]

\* lines 123-139, parsed being what the loop over the components left
ResolveSpecifiers(table, parsed, tables, cur_cell_addr) ==
    IF parsed.err /= "" THEN Fail(parsed.err)
    ELSE CheckedRange(_get_table_range(table, SanitizeIfAny(parsed.start_col),
                                       SanitizeIfAny(parsed.end_col),
                                       parsed.item_specifiers, tables, cur_cell_addr))

\* lines 113-139, comp being table_range_components
ResolveParsed(comp, tables, cur_cell_addr) ==
    IF ~comp.ok THEN Fail(comp.err)
    ELSE ResolveSpecifiers(comp.table,
             SpecifierLoop([err |-> "", start_col |-> None, end_col |-> None,
                            item_specifiers |-> <<>>],
                           _extract_table_specifiers(comp.specifier)),
             tables, cur_cell_addr)

\* resolve_table_ranges: [ok, val, err, cause]; err is the class of the exception
\* the caller gets, cause the class of the exception raised inside
resolve_table_ranges(ranges, tables, cur_cell_addr) ==
    ResolveParsed(_parse_table_range(ranges), tables, cur_cell_addr)

(***************************************************************************)
(* The state.                                                              *)
(*                                                                         *)
(* Model (model.py): cells maps an address to [value, formula], formula    *)
(* being the index in heap of the XLFormula object the cell owns (0 for    *)
(* none); formulae is the formulae dict as the sequence of its entries     *)
(* [key, fid] in insertion order; heap holds the XLFormula objects, so two *)
(* entries that hold one object share its fields; ranges maps a range key  *)
(* to the XLRange's matrix and range_ids to the identity of the XLRange    *)
(* object; defined_names and tables are the dicts of the same names.       *)
(*                                                                         *)
(* build_ranges: pc is its position; fi the index of the next formula of   *)
(* the phase 1 loop; unique_ranges, unique_formulas, formula_metadata,     *)
(* range_results and range_to_cells are its locals; futures maps each      *)
(* submitted range_data to the state of its worker.  cells_before is the   *)
(* cells dict as it was when build_ranges was called.                      *)
(*                                                                         *)
(* The resolver: request is the reference a caller resolves, cur_cell_addr *)
(* the address it passes, resolved what resolve_table_ranges gave.         *)
(*                                                                         *)
(* The Model's methods and the Graph Extractor work on objects: objects is *)
(* the store of the Python objects (an object's identity is its index),    *)
(* model the Model the compiler holds, as the four dicts of references     *)
(* into objects, other a second Model (extracted, loaded or compared),     *)
(* compiler_defined_names the raw name -> address dict of the compiler,    *)
(* stage the position of the ingestion, call the last call with its        *)
(* arguments, its result and the state it found, files the file system,    *)
(* parse_cache the lru_cache of _parse_formula_cached_local and calls the  *)
(* number of calls made on the Models; written is the Model the file was   *)
(* written from, with its store.                                           *)
(*                                                                         *)
(* The Range Expander: expr is the call of resolve_ranges a caller makes,  *)
(* expanded what it gave.                                                  *)
(*                                                                         *)
(* The column names of references: literal is the name of a table column  *)
(* as the sheet shows it, sanitized what _sanitize_table_column_name gave  *)
(* for the name as a reference writes it.                                  *)
(***************************************************************************)
VARIABLES cells, formulae, heap, ranges, range_ids, defined_names, tables,
          default_sheet, sheet_max_rows, pc, fi, unique_ranges, unique_formulas,
          formula_metadata, futures, range_results, range_to_cells, cells_before,
          request, cur_cell_addr, resolved,
          objects, model, other, compiler_defined_names, stage, call, files,
          parse_cache, calls, written, expr, expanded, literal, sanitized

modelVars == <<cells, formulae, heap, ranges, range_ids, defined_names, tables>>
buildVars == <<default_sheet, sheet_max_rows, pc, fi, unique_ranges, unique_formulas,
               formula_metadata, futures, range_results, range_to_cells,
               cells_before>>
resolverVars == <<request, cur_cell_addr, resolved>>
sessionVars == <<objects, model, other, compiler_defined_names, stage, call, files,
                 parse_cache, calls, written>>
expanderVars == <<expr, expanded>>
sanitizerVars == <<literal, sanitized>>
apiVars == <<sessionVars, expanderVars, sanitizerVars>>
vars == <<modelVars, buildVars, resolverVars, apiVars>>

EmptyMap == [x \in {} |-> x]

(***************************************************************************)
(* xltypes (not among the sources): the constructors as the callers in     *)
(* model.py and the specification use them.                                *)
(***************************************************************************)
\* XLCell(address, value): a cell without a formula
XLCell(address, value) == [value |-> value, formula |-> 0]

\* the identity of an XLRange object: the code that constructed it and the
\* address it was constructed for
RangeId(made_by, address_str) == [made_by |-> made_by, address |-> address_str]

\* XLRange(address_str, name, max_row): the matrix the Range Expander gives
XLRange(address_str, max_row) == resolve_ranges(address_str, "Sheet1", max_row)

(***************************************************************************)
(* model.py: ModelCompiler.build_ranges.                                   *)
(***************************************************************************)
\* _get_sheet_max_row; sheet_max_rows is a map, empty for None
_get_sheet_max_row(sheet_name) ==
    IF sheet_name = None THEN NoneInt
    ELSE IF sheet_max_rows /= EmptyMap /\ sheet_name \notin DOMAIN sheet_max_rows
    THEN 1
    ELSE IF sheet_max_rows /= EmptyMap THEN sheet_max_rows[sheet_name]
    ELSE NoneInt

FormulaKey(f) == f.sheet_name \o "|" \o f.formula

\* line 418 without the exception for This Row: every repeated key is skipped
DeduplicatedAll(formula_key, seen) == formula_key \in seen

\* whether the phase 1 loop skips the formula as already processed
Deduplicated(formula_key, seen) ==
    ~Contains(formula_key, "[#This Row]") /\ formula_key \in seen

\* the key a table term is stored under
ProcessedRange(range_ref, formula_addr) ==
    IF Contains(range_ref, "[#This Row]")
    THEN Replace(range_ref, "[#This Row]", formula_addr)
    ELSE range_ref

\* lines 442-449: a table term resolved to table_range
TableTerm(st, processed_range, table_range) ==
    IF ~table_range.ok THEN st
    ELSE [unique_ranges |-> st.unique_ranges \cup
              {[key |-> processed_range, target |-> table_range.val,
                type |-> "table", cur_sheet |-> None]},
          ranges |-> st.ranges \cup {processed_range}]

\* lines 456-459; str(None) is "None"
FullRange(range_ref) ==
    IF ~HasChar(range_ref, "!")
    THEN (IF default_sheet = None THEN "None" ELSE default_sheet) \o "!" \o range_ref
    ELSE range_ref

\* lines 461-465: a cell range
RangeTerm(st, full_range) ==
    [unique_ranges |-> st.unique_ranges \cup
         {[key |-> full_range, target |-> full_range, type |-> "range",
           cur_sheet |-> Split(full_range, "!")[1]]},
     ranges |-> st.ranges \cup {full_range}]

\* one iteration of the loop over formula.terms: st is (unique_ranges, the
\* "ranges" set of the formula's metadata)
TermStep(st, range_ref, formula_addr) ==
    IF HasChar(range_ref, "[") /\ HasChar(range_ref, "]")
    THEN TableTerm(st, ProcessedRange(range_ref, formula_addr),
                   resolve_table_ranges(range_ref, tables, formula_addr))
    ELSE IF HasChar(range_ref, ":") THEN RangeTerm(st, FullRange(range_ref))
    ELSE [st EXCEPT !.ranges = @ \cup {range_ref}]

RECURSIVE TermLoop(_, _, _)
TermLoop(st, terms, formula_addr) ==
    IF Len(terms) = 0 THEN st
    ELSE TermLoop(TermStep(st, Head(terms), formula_addr), Tail(terms), formula_addr)

\* lines 420-469: the formula is recorded, st being what the loop over its terms
\* left
RecordFormula(formula_addr, formula_key, st) ==
    /\ unique_formulas' = unique_formulas \cup {formula_key}
    /\ formula_metadata' =
           Append(formula_metadata,
                  [addr |-> formula_addr, key |-> formula_key, ranges |-> st.ranges])
    /\ unique_ranges' = st.unique_ranges

\* lines 414-469 for the formula object stored under formula_addr
ProcessFormula(formula_addr, formula) ==
    IF Deduplicated(FormulaKey(formula), unique_formulas)
    THEN UNCHANGED <<unique_formulas, formula_metadata, unique_ranges>>
    ELSE RecordFormula(formula_addr, FormulaKey(formula),
                       TermLoop([unique_ranges |-> unique_ranges, ranges |-> {}],
                                formula.terms, formula_addr))

\* phase 1, one iteration of the loop over self.model.formulae
ExtractFormula ==
    /\ pc = "phase1"
    /\ fi <= Len(formulae)
    /\ ProcessFormula(formulae[fi].key, heap[formulae[fi].fid])
    /\ fi' = fi + 1
    /\ UNCHANGED apiVars
    /\ UNCHANGED <<modelVars, default_sheet, sheet_max_rows, pc, futures,
                   range_results, range_to_cells, cells_before, resolverVars>>

\* phase 2: the executor is given one build_single_range per unique range (none
\* when there is no range)
SubmitRanges ==
    /\ pc = "phase1"
    /\ fi > Len(formulae)
    /\ futures' = [rd \in unique_ranges |-> [state |-> "running", ok |-> FALSE,
                                             cells |-> <<>>]]
    /\ pc' = "phase2"
    /\ UNCHANGED apiVars
    /\ UNCHANGED <<modelVars, default_sheet, sheet_max_rows, fi, unique_ranges,
                   unique_formulas, formula_metadata, range_results, range_to_cells,
                   cells_before, resolverVars>>

\* the sheet whose last row bounds the range
RangeSheet(range_data) ==
    IF range_data.type = "table"
    THEN (IF HasChar(range_data.target, "!") THEN Split(range_data.target, "!")[1]
          ELSE default_sheet)
    ELSE range_data.cur_sheet

\* what the future holds: the XLRange, or None (ok false) when its construction
\* raised
FinishedWith(xl_range) ==
    [state |-> "finished", ok |-> xl_range.ok, cells |-> xl_range.cells]

build_single_range(range_data) ==
    FinishedWith(XLRange(range_data.target, _get_sheet_max_row(RangeSheet(range_data))))

\* a worker runs build_single_range to its end
WorkerFinish(rd) ==
    /\ pc = "phase2"
    /\ futures[rd].state = "running"
    /\ futures' = [futures EXCEPT ![rd] = build_single_range(rd)]
    /\ UNCHANGED apiVars
    /\ UNCHANGED <<modelVars, default_sheet, sheet_max_rows, pc, fi, unique_ranges,
                   unique_formulas, formula_metadata, range_results, range_to_cells,
                   cells_before, resolverVars>>

\* the orchestrating thread takes a finished future from as_completed
CollectResult(rd) ==
    /\ pc = "phase2"
    /\ futures[rd].state = "finished"
    /\ futures' = [futures EXCEPT ![rd].state = "collected"]
    /\ range_results' =
           IF futures[rd].ok
           THEN [k \in DOMAIN range_results \cup {rd.key} |->
                    IF k = rd.key THEN futures[rd].cells ELSE range_results[k]]
           ELSE range_results
    /\ UNCHANGED apiVars
    /\ UNCHANGED <<modelVars, default_sheet, sheet_max_rows, pc, fi, unique_ranges,
                   unique_formulas, formula_metadata, range_to_cells, cells_before,
                   resolverVars>>

\* line 528 inside the loop of lines 523-526: the results are merged when the
\* first futures have been collected
MergeRangesEarly ==
    /\ pc = "phase2"
    /\ \E rd \in DOMAIN futures : futures[rd].state = "collected"
    /\ ranges' = [k \in DOMAIN ranges \cup DOMAIN range_results |->
                    IF k \in DOMAIN range_results THEN range_results[k]
                    ELSE ranges[k]]
    /\ range_ids' = [k \in DOMAIN ranges \cup DOMAIN range_results |->
                       IF k \in DOMAIN range_results
                       THEN RangeId("build_single_range", k)
                       ELSE range_ids[k]]
    /\ pc' = "phase3"
    /\ UNCHANGED apiVars
    /\ UNCHANGED <<cells, formulae, heap, defined_names, tables, default_sheet,
                   sheet_max_rows, fi, unique_ranges, unique_formulas,
                   formula_metadata, futures, range_results, range_to_cells,
                   cells_before, resolverVars>>

\* self.model.ranges.update(range_results), after the executor's with block
MergeRanges ==
    /\ pc = "phase2"
    /\ \A rd \in DOMAIN futures : futures[rd].state = "collected"
    /\ ranges' = [k \in DOMAIN ranges \cup DOMAIN range_results |->
                    IF k \in DOMAIN range_results THEN range_results[k]
                    ELSE ranges[k]]
    /\ range_ids' = [k \in DOMAIN ranges \cup DOMAIN range_results |->
                       IF k \in DOMAIN range_results
                       THEN RangeId("build_single_range", k)
                       ELSE range_ids[k]]
    /\ pc' = "phase3"
    /\ UNCHANGED apiVars
    /\ UNCHANGED <<cells, formulae, heap, defined_names, tables, default_sheet,
                   sheet_max_rows, fi, unique_ranges, unique_formulas,
                   formula_metadata, futures, range_results, range_to_cells,
                   cells_before, resolverVars>>

\* the addresses of a matrix
MatrixCells(matrix) ==
    UNION {{matrix[i][j] : j \in 1..Len(matrix[i])} : i \in 1..Len(matrix)}

\* line 555 without the difference: every cell of a resolved range is created anew
CellsToCreateAll(all_cells_to_create, existing_cells) == all_cells_to_create

\* the cells phase 3 creates
CellsToCreate(all_cells_to_create, existing_cells) ==
    all_cells_to_create \ existing_cells

\* lines 546-559 inside the loop of lines 523-526: the placeholder cells are
\* created from the results collected so far
CreateCellsEarly ==
    /\ pc = "phase2"
    /\ range_to_cells' = [k \in DOMAIN range_results |-> MatrixCells(range_results[k])]
    /\ cells' = [a \in DOMAIN cells
                       \cup UNION {MatrixCells(range_results[k]) : k \in DOMAIN range_results} |->
                    IF a \in DOMAIN cells THEN cells[a] ELSE XLCell(a, "")]
    /\ pc' = "phase3"
    /\ UNCHANGED apiVars
    /\ UNCHANGED <<formulae, heap, ranges, range_ids, defined_names, tables, default_sheet,
                   sheet_max_rows, fi, unique_ranges, unique_formulas,
                   formula_metadata, futures, range_results, cells_before,
                   resolverVars>>

\* phase 3: range_to_cells and the placeholder cells
CreateCells ==
    /\ pc = "phase3"
    /\ range_to_cells' = [k \in DOMAIN range_results |-> MatrixCells(range_results[k])]
    /\ LET all_cells_to_create ==
               UNION {MatrixCells(range_results[k]) : k \in DOMAIN range_results}
           cells_to_create == CellsToCreate(all_cells_to_create, DOMAIN cells)
       IN cells' = [a \in DOMAIN cells \cup cells_to_create |->
                       IF a \in cells_to_create THEN XLCell(a, "") ELSE cells[a]]
    /\ pc' = "phase4"
    /\ UNCHANGED apiVars
    /\ UNCHANGED <<formulae, heap, ranges, range_ids, defined_names, tables, default_sheet,
                   sheet_max_rows, fi, unique_ranges, unique_formulas,
                   formula_metadata, futures, range_results, cells_before,
                   resolverVars>>

\* the cells one entry of a formula's "ranges" contributes in phase 4
RefCells(range_ref, r2c) ==
    IF range_ref \in DOMAIN r2c THEN r2c[range_ref] ELSE {range_ref}

AssociatedCells(metadata, r2c) ==
    UNION {RefCells(range_ref, r2c) : range_ref \in metadata.ranges}

\* self.model.formulae[formula_addr]
FormulaAt(formula_addr) ==
    formulae[CHOOSE i \in 1..Len(formulae) : formulae[i].key = formula_addr].fid

\* the XLFormula objects phase 4 assigns the associations of formula_addr to
AssignedObjects(formula_addr) ==
    (IF formula_addr \in DOMAIN cells THEN {cells[formula_addr].formula} ELSE {})
    \cup (IF formula_addr \in DOMAIN defined_names
          THEN {cells[defined_names[formula_addr].address].formula} ELSE {})
    \cup {FormulaAt(formula_addr)}

\* phase 4, the loop over formula_metadata from entry i on
RECURSIVE AssociateLoop(_, _)
AssociateLoop(h, i) ==
    IF i > Len(formula_metadata) THEN h
    ELSE LET metadata == formula_metadata[i]
             associated_cells == AssociatedCells(metadata, range_to_cells)
             objs == AssignedObjects(metadata.addr)
         IN AssociateLoop([f \in DOMAIN h |->
                              IF f \in objs
                              THEN [h[f] EXCEPT !.associated_cells = associated_cells]
                              ELSE h[f]],
                          i + 1)

\* phase 4: the associations
Associate ==
    /\ pc = "phase4"
    /\ heap' = AssociateLoop(heap, 1)
    /\ pc' = "done"
    /\ UNCHANGED apiVars
    /\ UNCHANGED <<cells, formulae, ranges, range_ids, defined_names, tables, default_sheet,
                   sheet_max_rows, fi, unique_ranges, unique_formulas,
                   formula_metadata, futures, range_results, range_to_cells,
                   cells_before, resolverVars>>

(***************************************************************************)
(* The workbooks build_ranges is run on.                                   *)
(***************************************************************************)
MaxFormulas == 2

Tbl(name, sheet, cell_range, columns, header_row_count, has_totals_row) ==
    [name |-> name, sheet |-> sheet, cell_range |-> cell_range, columns |-> columns,
     header_row_count |-> header_row_count, has_totals_row |-> has_totals_row]

StdColumns == <<"Col1", "Col2", "Col3">>

\* the formulas of the workbooks: the text and the terms the tokenizer gives
FormulaTemplates ==
    << [formula |-> "=SUM(Sheet1!A1:B2)", terms |-> <<"Sheet1!A1:B2">>],
       [formula |-> "=Sheet1!A2+Sheet1!C9", terms |-> <<"Sheet1!A2", "Sheet1!C9">>],
       [formula |-> "=SUM(T[Col1])+Sheet1!A2", terms |-> <<"T[Col1]", "Sheet1!A2">>],
       [formula |-> "=SUM(Nope[Col1])+SUM(Sheet1!A1:B2)",
        terms |-> <<"Nope[Col1]", "Sheet1!A1:B2">>],
       [formula |-> "=SUM('My!S'!A1:A2)+Sheet1!A2",
        terms |-> <<"'My!S'!A1:A2", "Sheet1!A2">>],
       [formula |-> "=T[[#This Row],[Col1]]*2", terms |-> <<"T[[#This Row],[Col1]]">>],
       [formula |-> "=SUM(A1:A2)", terms |-> <<"A1:A2">>] >>

\* the address of the i-th formula cell: Sheet1!E2, Sheet1!E3, ...
HostAddr(i) == "Sheet1!E" \o IntToStr(i + 1)

\* the cells the workbook holds values in
ValueCells == [a \in {"Sheet1!A1", "Sheet1!A2"} |->
                 IF a = "Sheet1!A1" THEN XLCell(a, "Col1") ELSE XLCell(a, "7")]

BuildTables == <<Tbl("T", "Sheet1", "A1:C4", StdColumns, 1, FALSE)>>

\* the defined names of the workbooks: none, or block for the range Sheet1!A1:A2,
\* as build_defined_names registers it (lines 342-345): the XLRange of the name
\* is the entry of model.ranges under the address
BuildNames ==
    {EmptyMap,
     [n \in {"block"} |->
         [address |-> "Sheet1!A1:A2",
          range |-> RangeId("build_defined_names", "Sheet1!A1:A2")]]}

\* model.ranges as build_defined_names left it
RegisteredRanges(names) ==
    [k \in {names[n].address : n \in DOMAIN names} |-> XLRange(k, NoneInt).cells]

RegisteredIds(names) ==
    [k \in {names[n].address : n \in DOMAIN names} |->
        RangeId("build_defined_names", k)]

NoRequest ==
    [table |-> "", items |-> <<>>, column |-> "", layout |-> "items, column",
     text |-> ""]
Pending == [ok |-> FALSE, val |-> "", err |-> "", cause |-> ""]

ResolverIdle ==
    /\ request = NoRequest
    /\ cur_cell_addr = None
    /\ resolved = Pending

\* Model(): the dataclass's default_factory gives every field an empty dict
NewModel ==
    [cells |-> EmptyMap, formulae |-> EmptyMap, ranges |-> EmptyMap,
     defined_names |-> EmptyMap, tables |-> EmptyMap]

\* no second Model exists
NoModel == [absent |-> TRUE]

NoCall == [op |-> "none"]

\* no Model method is called
SessionIdle ==
    /\ objects = <<>>
    /\ model = NewModel
    /\ other = NoModel
    /\ compiler_defined_names = EmptyMap
    /\ stage = "idle"
    /\ call = NoCall
    /\ files = EmptyMap
    /\ parse_cache = EmptyMap
    /\ calls = 0
    /\ written = NoModel

NoExpr == [frags |-> <<>>, ranges |-> "", default_sheet |-> None, sheet_max_row |-> NoneInt]
NotExpanded == [ok |-> FALSE, err |-> "", sheet |-> None, cells |-> <<>>]

\* no resolve_ranges is called
ExpanderIdle ==
    /\ expr = NoExpr
    /\ expanded = NotExpanded

NotSanitized == [done |-> FALSE, val |-> ""]

\* no column name is sanitized
SanitizerIdle ==
    /\ literal = None
    /\ sanitized = NotSanitized

\* the model as ingestion leaves it, at the call of build_ranges
Init ==
    /\ \E n \in 0..MaxFormulas :
         \E tpl \in [1..n -> 1..Len(FormulaTemplates)] :
           /\ heap = [i \in 1..n |->
                        [sheet_name |-> "Sheet1",
                         formula |-> FormulaTemplates[tpl[i]].formula,
                         terms |-> FormulaTemplates[tpl[i]].terms,
                         associated_cells |-> {}]]
           /\ formulae = [i \in 1..n |-> [key |-> HostAddr(i), fid |-> i]]
           /\ cells = [a \in DOMAIN ValueCells \cup {HostAddr(i) : i \in 1..n} |->
                         IF a \in DOMAIN ValueCells THEN ValueCells[a]
                         ELSE [value |-> None,
                               formula |-> CHOOSE i \in 1..n : HostAddr(i) = a]]
    /\ defined_names \in BuildNames
    /\ ranges = RegisteredRanges(defined_names)
    /\ range_ids = RegisteredIds(defined_names)
    /\ tables = BuildTables
    /\ default_sheet \in {"Sheet1", None}
    /\ sheet_max_rows \in {EmptyMap, [sh \in {"Sheet1"} |-> 3]}
    /\ pc = "phase1"
    /\ fi = 1
    /\ unique_ranges = {}
    /\ unique_formulas = {}
    /\ formula_metadata = <<>>
    /\ futures = EmptyMap
    /\ range_results = EmptyMap
    /\ range_to_cells = EmptyMap
    /\ cells_before = cells
    /\ ResolverIdle
    /\ SessionIdle
    /\ ExpanderIdle
    /\ SanitizerIdle

Next ==
    \/ ExtractFormula
    \/ SubmitRanges
    \/ \E rd \in DOMAIN futures : WorkerFinish(rd)
    \/ \E rd \in DOMAIN futures : CollectResult(rd)
    \/ MergeRanges
    \/ CreateCells
    \/ Associate

Spec == Init /\ [][Next]_vars

(***************************************************************************)
(* The references resolve_table_ranges is called on.                       *)
(*                                                                         *)
(* A request is a structured reference: table is its table name, items the *)
(* names of its item specifiers in the order written, column its column    *)
(* component ("" for none), layout the order its components are written in *)
(* (an "empty" in it is a component []) and text the reference as the      *)
(* caller passes it: T[[#Headers],[#Data],[Col1]].                         *)
(***************************************************************************)
MaxItems == 2
MaxHeaderRows == 2

ItemNames == {"All", "Headers", "Data", "This Row", "Totals", "Bogus"}

ColumnComponents ==
    {"", "[Col1]", "[Col1_2]", "[Col9]", "[Col1]:[Col3]", "[Col3]:[Col1]"}
\* the components of a reference, in the order written
Components(items, column) ==
    [i \in 1..Len(items) |-> "[#" \o items[i] \o "]"]
    \o (IF column = "" THEN <<>> ELSE <<column>>)

RECURSIVE JoinComponents(_)
JoinComponents(comps) ==
    IF Len(comps) = 0 THEN ""
    ELSE IF Len(comps) = 1 THEN comps[1]
    ELSE comps[1] \o "," \o JoinComponents(Tail(comps))

RequestText(table, items, column) ==
    table \o "[" \o JoinComponents(Components(items, column)) \o "]"

Request(table, items, column) ==
    [table |-> table, items |-> items, column |-> column, layout |-> "items, column",
     text |-> RequestText(table, items, column)]

\* the components of a reference written in the order of layout
WrittenComponents(items, column, layout) ==
    CASE layout = "items, column" -> Components(items, column)
      [] layout = "column, items" -> Components(<<>>, column) \o Components(items, "")
      [] layout = "empty, items, column" -> <<"[]">> \o Components(items, column)
      [] layout = "items, column, empty" -> Components(items, column) \o <<"[]">>

WrittenText(table, items, column, layout) ==
    table \o "[" \o JoinComponents(WrittenComponents(items, column, layout)) \o "]"

Written(table, items, column, layout) ==
    [table |-> table, items |-> items, column |-> column, layout |-> layout,
     text |-> WrittenText(table, items, column, layout)]

ItemSeqs == UNION {[1..n -> ItemNames] : n \in 0..MaxItems}

\* a term that is no structured reference: it has no bracket
Malformed ==
    [table |-> "T", items |-> <<>>, column |-> "", layout |-> "items, column",
     text |-> "T"]

\* references whose column component is written before their item specifiers
ColumnFirst ==
    {Written("T", items, column, "column, items") :
        items \in ItemSeqs \ {<<>>}, column \in ColumnComponents \ {""}}

\* references with a component [] before or after their other components
WithEmpty ==
    {Written("T", items, column, layout) :
        items \in {<<>>, <<"Data">>, <<"Headers">>}, column \in {"", "[Col1]"},
        layout \in {"empty, items, column", "items, column, empty"}}

Requests ==
    {Request("T", items, column) : items \in ItemSeqs, column \in ColumnComponents}
    \cup {Request("My_Table", <<>>, "[Col1]"), Request("My_Table", <<"Data">>, ""),
          Malformed}
    \cup ColumnFirst
    \cup WithEmpty

\* the number of rows of a table's cell_range
RowCount(b) == b.max_row - b.min_row + 1

\* a table as Excel lays it out: its header rows, at least one data row and its
\* totals row fit in its cell_range
WellFormed(t) ==
    RowCount(range_boundaries(t.cell_range))
        >= t.header_row_count + 1 + (IF t.has_totals_row THEN 1 ELSE 0)

GeometryTables ==
    {t \in {Tbl("T", "Sheet1", cell_range, StdColumns, h, tot) :
               cell_range \in {"A1:C5", "B2:D4"}, h \in 0..MaxHeaderRows,
               tot \in BOOLEAN} : WellFormed(t)}

ColumnTables ==
    {Tbl("T", "Sheet1", "A1:C5", columns, 1, FALSE) :
        columns \in {<<"Col1", "Col1", "Col1_2">>, <<"Col1", "Col1", "Col1">>,
                     <<"Col1_2", "Col1", "Col1">>}}

\* tables registered under a name that is not the name references use
RenamedTables ==
    {<<Tbl("T_Sheet1", "Sheet1", "A1:C5", StdColumns, 1, FALSE)>>,
     <<Tbl("My_Table_Sheet1", "Sheet1", "A1:C5", StdColumns, 1, FALSE)>>,
     <<Tbl("T_Other", "Sheet1", "A1:C5", StdColumns, 1, FALSE)>>,
     <<Tbl("T_Other", "Sheet1", "A1:C5", StdColumns, 1, FALSE),
       Tbl("T_Sheet1", "Sheet1", "B2:D4", StdColumns, 1, FALSE)>>}

\* tables without a data row: the header row is the whole cell_range
HeaderOnlyTables == {Tbl("T", "Sheet1", "A1:C1", StdColumns, 1, FALSE)}

TablePool ==
    {<<t>> : t \in GeometryTables \cup ColumnTables \cup HeaderOnlyTables}
    \cup RenamedTables

\* no build_ranges is running
BuildIdle ==
    /\ cells = EmptyMap
    /\ formulae = <<>>
    /\ heap = <<>>
    /\ ranges = EmptyMap
    /\ range_ids = EmptyMap
    /\ defined_names = EmptyMap
    /\ default_sheet = None
    /\ sheet_max_rows = EmptyMap
    /\ pc = "idle"
    /\ fi = 1
    /\ unique_ranges = {}
    /\ unique_formulas = {}
    /\ formula_metadata = <<>>
    /\ futures = EmptyMap
    /\ range_results = EmptyMap
    /\ range_to_cells = EmptyMap
    /\ cells_before = EmptyMap

ResolveInit ==
    /\ BuildIdle
    /\ tables \in TablePool
    /\ request \in Requests
    /\ cur_cell_addr \in {None, "Sheet1!E3"}
    /\ resolved = Pending
    /\ SessionIdle
    /\ ExpanderIdle
    /\ SanitizerIdle

\* the caller's call of resolve_table_ranges(ranges, tables, cur_cell_addr)
Resolve ==
    /\ pc = "idle"
    /\ resolved = Pending
    /\ resolved' = resolve_table_ranges(request.text, tables, cur_cell_addr)
    /\ UNCHANGED apiVars
    /\ UNCHANGED <<modelVars, buildVars, request, cur_cell_addr>>

ResolveNext == Resolve

ResolveSpec == ResolveInit /\ [][ResolveNext]_vars

(***************************************************************************)
(* The column names _sanitize_table_column_name is called on.              *)
(*                                                                         *)
(* A reference writes a column name in its escaped form: each of the       *)
(* characters [ ] ' # @ of the name is preceded by an apostrophe.          *)
(***************************************************************************)
MaxNameLen == 3

NameChars == {"a", "'", "#", "@", "[", "]"}

RECURSIVE Concat(_)
Concat(chars) == IF Len(chars) = 0 THEN "" ELSE chars[1] \o Concat(Tail(chars))

LiteralNames == {Concat(chars) : chars \in UNION {[1..n -> NameChars] : n \in 1..MaxNameLen}}

RECURSIVE EscapedFrom(_, _)
EscapedFrom(name, i) ==
    IF i > Len(name) THEN ""
    ELSE (IF CharAt(name, i) \in SpecialChars THEN "'" ELSE "")
         \o CharAt(name, i) \o EscapedFrom(name, i + 1)

\* the name as a reference writes it
Escaped(name) == EscapedFrom(name, 1)

SanitizeInit ==
    /\ BuildIdle
    /\ tables = <<>>
    /\ ResolverIdle
    /\ SessionIdle
    /\ ExpanderIdle
    /\ literal \in LiteralNames
    /\ sanitized = NotSanitized

\* the call _sanitize_table_column_name(start_col) of resolve_table_ranges, on
\* the column name of a reference
Sanitize ==
    /\ pc = "idle"
    /\ literal /= None
    /\ ~sanitized.done
    /\ sanitized' = [done |-> TRUE, val |-> _sanitize_table_column_name(Escaped(literal))]
    /\ UNCHANGED <<modelVars, buildVars, resolverVars, sessionVars, expanderVars, literal>>

SanitizeNext == Sanitize

SanitizeSpec == SanitizeInit /\ [][SanitizeNext]_vars

(***************************************************************************)
(* The objects the Model holds (xltypes is not among the sources; the      *)
(* fields are those model.py reads and writes).                            *)
(*                                                                         *)
(* A value is a literal (a number or a text, written as its text; None) or *)
(* a reference to a mutable object of the caller, a list.  objects[1] is   *)
(* the class xltypes.XLCell itself, with its class attributes, and         *)
(* objects[2] a list the caller owns.                                      *)
(***************************************************************************)
Lit(s) == [ref |-> 0, lit |-> s]
Obj(r) == [ref |-> r, lit |-> ""]

\* xltypes.XLCell(address, value, formula=formula) as an object of the store
CellObject(address, value, formula) ==
    [kind |-> "XLCell", address |-> address, value |-> value, formula |-> formula,
     defined_names |-> <<>>]

\* the class xltypes.XLCell: value and formula are its dataclass defaults
XLCellClass ==
    [kind |-> "type", address |-> "", value |-> Lit(None), formula |-> 0,
     defined_names |-> <<>>]

NoAst == [text |-> "", names |-> EmptyMap]

\* xltypes.XLFormula(formula, sheet_name=sheet_name) with the terms the
\* tokenizer gave it
FormulaObject(sheet_name, formula, terms) ==
    [kind |-> "XLFormula", sheet_name |-> sheet_name, formula |-> formula,
     terms |-> terms, ast |-> NoAst]

\* xltypes.XLRange(address_str, name=name) holding the matrix cells
RangeObject(address_str, name, matrix) ==
    [kind |-> "XLRange", address |-> address_str, name |-> name, cells |-> matrix]

ListObject(items) == [kind |-> "list", items |-> items]

XLCellRef == 1
CallerListRef == 2

\* the arguments a caller passes as an address: a string, a cell object with
\* that address, or something that is neither
StrArg(s) == [type |-> "str", s |-> s]
CellArg(s) == [type |-> "XLCell", s |-> s]
IntArg == [type |-> "int", s |-> "5"]

Returns(v) == [ok |-> TRUE, err |-> "", val |-> v]
Raises(e) == [ok |-> FALSE, err |-> e, val |-> Lit(None)]

\* d[k] = v on a dict
Put(d, k, v) == [x \in DOMAIN d \cup {k} |-> IF x = k THEN v ELSE d[x]]

\* the outcome of a method: the Model, the store and what the call gave
Outcome(self, objs, ret) == [self |-> self, objects |-> objs, ret |-> ret]

(***************************************************************************)
(* model.py: Model.set_cell_value and Model.get_cell_value.                *)
(***************************************************************************)
\* lines 115-117 and 139-141: a defined name bound to a cell gives its address
Redirect(self, objs, address) ==
    IF address.type = "str" /\ address.s \in DOMAIN self.defined_names
       /\ objs[self.defined_names[address.s]].kind = "XLCell"
    THEN StrArg(objs[self.defined_names[address.s]].address)
    ELSE address

\* copy.copy(value): a literal is itself, a list a new list of the same items
CopyValue(objs, value) ==
    IF value.ref = 0 THEN [objects |-> objs, value |-> value]
    ELSE [objects |-> Append(objs, ListObject(objs[value.ref].items)),
          value |-> Obj(Len(objs) + 1)]

\* lines 120-123 with c the copy of line 121 or 123
SetCopied(self, a, c) ==
    IF a \in DOMAIN self.cells
    THEN Outcome(self, [c.objects EXCEPT ![self.cells[a]].value = c.value],
                 Returns(Lit(None)))
    ELSE Outcome([self EXCEPT !.cells = Put(self.cells, a, Len(c.objects) + 1)],
                 Append(c.objects, CellObject(a, c.value, 0)), Returns(Lit(None)))

\* lines 126-130: line 129 binds the class, line 130 is an expression of its own
SetByCell(self, objs, a, value) ==
    IF a \in DOMAIN self.cells
    THEN Outcome(self, [objs EXCEPT ![self.cells[a]].value = value],
                 Returns(Lit(None)))
    ELSE Outcome([self EXCEPT !.cells = Put(self.cells, a, XLCellRef)], objs,
                 Returns(Lit(None)))

\* lines 119-136 on the address after the redirection
SetRedirected(self, objs, address, value) ==
    IF address.type = "str" THEN SetCopied(self, address.s, CopyValue(objs, value))
    ELSE IF address.type = "XLCell" THEN SetByCell(self, objs, address.s, value)
    ELSE Outcome(self, objs, Raises("TypeError"))

set_cell_value(self, objs, address, value) ==
    SetRedirected(self, objs, Redirect(self, objs, address), value)

\* lines 143-167 as a dict lookup would do it: a missing cell raises
GetRedirectedStrict(self, objs, address) ==
    IF address.type \in {"str", "XLCell"}
    THEN IF address.s \in DOMAIN self.cells
         THEN Returns(objs[self.cells[address.s]].value)
         ELSE Raises("KeyError")
    ELSE Raises("TypeError")

\* lines 143-167 on the address after the redirection
GetRedirected(self, objs, address) ==
    IF address.type \in {"str", "XLCell"}
    THEN IF address.s \in DOMAIN self.cells
         THEN Returns(objs[self.cells[address.s]].value)
         ELSE Returns(Lit("0"))
    ELSE Raises("TypeError")

get_cell_value(self, objs, address) ==
    GetRedirected(self, objs, Redirect(self, objs, address))

(***************************************************************************)
(* model.py: ModelCompiler.build_defined_names and                         *)
(* link_cells_to_defined_names.  The loops run over the names in one       *)
(* order; st is (self, objects, ret), ret.ok telling whether the loop goes *)
(* on.                                                                     *)
(***************************************************************************)
\* the names of a dict in the order the loop visits them
RECURSIVE Ordered(_)
Ordered(S) ==
    IF S = {} THEN <<>>
    ELSE LET k == CHOOSE x \in S : TRUE IN <<k>> \o Ordered(S \ {k})

\* lines 347-348: the formula of the address is also the formula of the name
PropagateFormula(self, objs, name, cell_address) ==
    IF cell_address \in DOMAIN self.formulae /\ name \notin DOMAIN self.formulae
    THEN [self EXCEPT !.formulae =
              Put(self.formulae, name, objs[self.cells[cell_address]].formula)]
    ELSE self

\* lines 330-339, 347-348: a name of a single cell
BindCell(st, name, cell_address) ==
    IF cell_address \notin DOMAIN st.self.cells THEN st
    ELSE Outcome(PropagateFormula(
                     [st.self EXCEPT !.defined_names =
                         Put(st.self.defined_names, name, st.self.cells[cell_address])],
                     st.objects, name, cell_address),
                 st.objects, st.ret)

\* lines 342-345: a name of a range, r being what XLRange's expansion gave
BindRange(st, name, cell_address, r) ==
    IF ~r.ok THEN Outcome(st.self, st.objects, Raises(r.err))
    ELSE Outcome([st.self EXCEPT
                     !.defined_names = Put(st.self.defined_names, name,
                                           Len(st.objects) + 1),
                     !.ranges = Put(st.self.ranges, cell_address, Len(st.objects) + 1)],
                 Append(st.objects, RangeObject(cell_address, name, r.cells)),
                 st.ret)

\* lines 325-348 for one name, cell_address being its address without the $
BindName(st, name, cell_address) ==
    IF ~HasChar(cell_address, ":") THEN BindCell(st, name, cell_address)
    ELSE BindRange(st, name, cell_address, XLRange(cell_address, NoneInt))

RECURSIVE BindLoop(_, _, _)
BindLoop(st, raw, names) ==
    IF Len(names) = 0 \/ ~st.ret.ok THEN st
    ELSE BindLoop(BindName(st, Head(names), Replace(raw[Head(names)], "$", "")),
                  raw, Tail(names))

build_defined_names(self, objs, raw) ==
    BindLoop(Outcome(self, objs, Returns(Lit(None))), raw, Ordered(DOMAIN raw))

\* .defined_names.append(name) on the cell at address
AppendName(st, address, name) ==
    IF address \notin DOMAIN st.self.cells
    THEN Outcome(st.self, st.objects, Raises("KeyError"))
    ELSE Outcome(st.self,
                 [st.objects EXCEPT ![st.self.cells[address]].defined_names =
                     Append(@, name)],
                 st.ret)

\* lines 359-361 over the addresses of the matrix, row after row
RECURSIVE LinkAddresses(_, _, _)
LinkAddresses(st, addresses, name) ==
    IF Len(addresses) = 0 \/ ~st.ret.ok THEN st
    ELSE LinkAddresses(AppendName(st, Head(addresses), name), Tail(addresses), name)

RECURSIVE Flatten(_)
Flatten(matrix) ==
    IF Len(matrix) = 0 THEN <<>> ELSE Head(matrix) \o Flatten(Tail(matrix))

\* lines 352-373 for one name bound to defn
LinkName(st, name, defn) ==
    IF defn.kind = "XLCell" THEN AppendName(st, defn.address, name)
    ELSE IF defn.kind = "XLRange"
    THEN IF Len(defn.cells) > 0 THEN LinkAddresses(st, Flatten(defn.cells), name)
         ELSE Outcome(st.self, st.objects, Raises("Exception"))
    ELSE Outcome(st.self, st.objects, Raises("ValueError"))

RECURSIVE LinkLoop(_, _)
LinkLoop(st, names) ==
    IF Len(names) = 0 \/ ~st.ret.ok THEN st
    ELSE LinkLoop(LinkName(st, Head(names),
                           st.objects[st.self.defined_names[Head(names)]]),
                  Tail(names))

link_cells_to_defined_names(self, objs) ==
    LinkLoop(Outcome(self, objs, Returns(Lit(None))), Ordered(DOMAIN self.defined_names))

(***************************************************************************)
(* model.py: Model.build_code and the cached parser.                       *)
(***************************************************************************)
\* parser.FormulaParser().parse(formula_text, defined_names): the AST is a
\* function of the text and of the addresses of the defined names the text uses
Parse(formula_text, names) ==
    [text |-> formula_text,
     names |-> [n \in {x \in DOMAIN names : Contains(formula_text, x)} |-> names[n]]]

\* _serialize_defined_names: "empty", or the hash of the sorted items, taken
\* here to differ whenever the items do
_serialize_defined_names(defined_names_dict) ==
    IF defined_names_dict = EmptyMap THEN [empty |-> TRUE, items |-> EmptyMap]
    ELSE [empty |-> FALSE, items |-> defined_names_dict]

\* _parse_formula_cached_local under lru_cache: the cache after the call and the
\* AST it gave; line 37 sets defined_names = {} whatever the hash
_parse_formula_cached_local(cache, formula_text, defined_names_hash) ==
    IF <<formula_text, defined_names_hash>> \in DOMAIN cache
    THEN [cache |-> cache, ast |-> cache[<<formula_text, defined_names_hash>>]]
    ELSE [cache |-> Put(cache, <<formula_text, defined_names_hash>>,
                        Parse(formula_text, EmptyMap)),
          ast |-> Parse(formula_text, EmptyMap)]

\* lines 227-229: name -> defn.address
NameAddresses(self, objs) ==
    [name \in DOMAIN self.defined_names |-> objs[self.defined_names[name]].address]

\* lines 233-235: the formula object f gets the AST of p
StoreAst(st, f, p) ==
    [objects |-> [st.objects EXCEPT ![f].ast = p.ast], cache |-> p.cache]

\* lines 226-235 for the cell object c
CompileCell(self, st, c) ==
    IF c.formula = 0 THEN st
    ELSE StoreAst(st, c.formula,
                  _parse_formula_cached_local(
                      st.cache, st.objects[c.formula].formula,
                      _serialize_defined_names(NameAddresses(self, st.objects))))

RECURSIVE CompileLoop(_, _, _)
CompileLoop(self, st, addresses) ==
    IF Len(addresses) = 0 THEN st
    ELSE CompileLoop(self,
                     CompileCell(self, st, st.objects[self.cells[Head(addresses)]]),
                     Tail(addresses))

\* build_code: the store and the cache after it
build_code(self, objs, cache) ==
    CompileLoop(self, [objects |-> objs, cache |-> cache], Ordered(DOMAIN self.cells))

(***************************************************************************)
(* model.py: Model.persist_to_json_file and construct_from_json_file.      *)
(*                                                                         *)
(* jsonpickle.encode writes the objects reachable from the four dicts,     *)
(* each once: an object becomes a node, a reference to it the number of    *)
(* the node (py/id), a reference to the class XLCell the name of the class *)
(* (py/type).  jsonpickle.decode builds new objects from the nodes.        *)
(***************************************************************************)
\* str.lower()
RECURSIVE Lower(_)
Lower(s) ==
    IF Len(s) = 0 THEN ""
    ELSE (IF HasChar(UpperLetters, CharAt(s, 1))
          THEN CharAt(LowerLetters, Find(UpperLetters, CharAt(s, 1)))
          ELSE CharAt(s, 1)) \o Lower(Tail(s))

\* os.path.splitext(p)[-1] when the last separator is at sep and the last dot at
\* dot (0 for none): a dot that only leading dots of the base name precede
\* begins no extension
ExtensionFrom(p, sep, dot) ==
    IF dot > sep /\ \E i \in (sep + 1)..(dot - 1) : CharAt(p, i) /= "."
    THEN SubSeq(p, dot, Len(p))
    ELSE ""

SplitExt(p) == ExtensionFrom(p, RFind(p, "/"), RFind(p, "."))

\* lines 182-186 without .lower()
file_openCaseSensitive(fname) ==
    IF SplitExt(fname) \in {".gzip", ".gz"} THEN "gzip.GzipFile" ELSE "open"

\* lines 182-186 and 194-198
file_open(fname) ==
    IF Lower(SplitExt(fname)) \in {".gzip", ".gz"} THEN "gzip.GzipFile" ELSE "open"

\* the objects jsonpickle reaches from the dict d of references
ReachedFrom(objs, d) ==
    LET direct == {d[k] : k \in DOMAIN d} \ {XLCellRef}
        cellRefs == {r \in direct : objs[r].kind = "XLCell"}
    IN direct
       \cup {objs[r].formula : r \in {c \in cellRefs : objs[c].formula /= 0}}
       \cup {objs[r].value.ref : r \in {c \in cellRefs : objs[c].value.ref /= 0}}

Reached(self, objs) ==
    ReachedFrom(objs, self.cells) \cup ReachedFrom(objs, self.defined_names)
    \cup ReachedFrom(objs, self.formulae) \cup ReachedFrom(objs, self.ranges)

\* the number of the node of the object r, order being the nodes' objects
NodeOf(order, r) == CHOOSE k \in 1..Len(order) : order[k] = r

\* a reference as jsonpickle writes it
Tag(order, r) ==
    IF r = XLCellRef THEN [type |-> "xlcalculator.xltypes.XLCell", id |-> 0]
    ELSE [type |-> "", id |-> NodeOf(order, r)]

\* the node of the object o
Node(order, o) ==
    IF o.kind = "XLCell"
    THEN [o EXCEPT !.formula = IF o.formula = 0 THEN 0 ELSE NodeOf(order, o.formula),
                   !.value = IF o.value.ref = 0 THEN o.value
                             ELSE Obj(NodeOf(order, o.value.ref))]
    ELSE o

TaggedDict(order, d) == [k \in DOMAIN d |-> Tag(order, d[k])]

\* jsonpickle.encode(output, keys=True) with the nodes in the given order
EncodeOrdered(self, objs, order) ==
    [nodes |-> [k \in 1..Len(order) |-> Node(order, objs[order[k]])],
     cells |-> TaggedDict(order, self.cells),
     defined_names |-> TaggedDict(order, self.defined_names),
     formulae |-> TaggedDict(order, self.formulae),
     ranges |-> TaggedDict(order, self.ranges)]

Encode(self, objs) == EncodeOrdered(self, objs, Sorted(Reached(self, objs)))

\* persist_to_json_file: the file system after it
persist_to_json_file(self, objs, fs, fname) ==
    Put(fs, fname, [framing |-> file_open(fname), data |-> Encode(self, objs)])

\* a node as the object jsonpickle.decode builds, base being the number of
\* objects before it
Built(base, n) ==
    IF n.kind = "XLCell"
    THEN [n EXCEPT !.formula = IF n.formula = 0 THEN 0 ELSE base + n.formula,
                   !.value = IF n.value.ref = 0 THEN n.value
                             ELSE Obj(base + n.value.ref)]
    ELSE n

\* a dict of tags as the dict of references jsonpickle.decode builds
BuiltDict(base, d) ==
    [k \in DOMAIN d |-> IF d[k].id = 0 THEN XLCellRef ELSE base + d[k].id]

\* lines 203-217 on the data decoded
Load(self, objs, data) ==
    Outcome([self EXCEPT !.cells = BuiltDict(Len(objs), data.cells),
                         !.defined_names = BuiltDict(Len(objs), data.defined_names),
                         !.ranges = BuiltDict(Len(objs), data.ranges),
                         !.formulae = BuiltDict(Len(objs), data.formulae)],
            objs \o [k \in 1..Len(data.nodes) |-> Built(Len(objs), data.nodes[k])],
            Returns(Lit(None)))

\* lines 194-217: the file is read with the opener of its name
ReadAndLoad(self, objs, fs, fname) ==
    IF fname \notin DOMAIN fs THEN Outcome(self, objs, Raises("FileNotFoundError"))
    ELSE IF fs[fname].framing /= file_open(fname)
    THEN Outcome(self, objs, Raises(IF file_open(fname) = "open"
                                    THEN "UnicodeDecodeError" ELSE "BadGzipFile"))
    ELSE Load(self, objs, fs[fname].data)

\* lines 219-220
CompileLoaded(r, cache, compile) ==
    IF compile /\ r.ret.ok
    THEN [loaded |-> r, built |-> build_code(r.self, r.objects, cache)]
    ELSE [loaded |-> r, built |-> [objects |-> r.objects, cache |-> cache]]

\* construct_from_json_file(fname, build_code=compile) on the Model self
construct_from_json_file(self, objs, fs, fname, compile, cache) ==
    CompileLoaded(ReadAndLoad(self, objs, fs, fname), cache, compile)

(***************************************************************************)
(* model.py: ModelCompiler.extract and Model.__eq__.                       *)
(***************************************************************************)
\* copy.deepcopy of the cell o: its list value and its formula are copied
\* before it, objs1 and objs2 being the store after each
CopiedCell(o, objs1, objs2) ==
    [objects |-> Append(objs2,
                        [o EXCEPT !.value = IF o.value.ref = 0 THEN o.value
                                            ELSE Obj(Len(objs1)),
                                  !.formula = IF o.formula = 0 THEN 0 ELSE Len(objs2)]),
     ref |-> Len(objs2) + 1]

WithFormulaCopy(objs, o, objs1) ==
    CopiedCell(o, objs1, IF o.formula = 0 THEN objs1 ELSE Append(objs1, objs[o.formula]))

DeepCopyCell(objs, o) ==
    WithFormulaCopy(objs, o, IF o.value.ref = 0 THEN objs ELSE Append(objs, objs[o.value.ref]))

\* copy.deepcopy of the object r refers to: a class is returned as it is
DeepCopy(objs, r) ==
    IF objs[r].kind = "type" THEN [objects |-> objs, ref |-> r]
    ELSE IF objs[r].kind = "XLCell" THEN DeepCopyCell(objs, objs[r])
    ELSE [objects |-> Append(objs, objs[r]), ref |-> Len(objs) + 1]

\* extracted_model.cells[a] = c.ref, c being a copy
StoreCell(acc, a, c) ==
    [acc EXCEPT !.self.cells = Put(acc.self.cells, a, c.ref), !.objects = c.objects]

\* extracted_model.cells[a] = copy.deepcopy(model.cells[a]) for every a of
\* addresses (lines 619-621, 626-628, 643-644)
RECURSIVE CopyCells(_, _, _)
CopyCells(model_, acc, addresses) ==
    IF Len(addresses) = 0 \/ acc.err /= "" THEN acc
    ELSE IF Head(addresses) \notin DOMAIN model_.cells
    THEN [acc EXCEPT !.err = "KeyError"]
    ELSE CopyCells(model_,
                   StoreCell(acc, Head(addresses),
                             DeepCopy(acc.objects, model_.cells[Head(addresses)])),
                   Tail(addresses))

\* lines 618-628: the cells of the definition defn, which is the copy
CopyDefined(model_, acc, defn) ==
    IF defn.kind = "XLCell" THEN CopyCells(model_, acc, <<defn.address>>)
    ELSE IF defn.kind = "XLRange" THEN CopyCells(model_, acc, Flatten(defn.cells))
    ELSE acc

\* lines 614-628: d is the copy of the definition
StoreDefined(model_, acc, address, d) ==
    CopyDefined(model_,
                [acc EXCEPT !.self.defined_names = Put(acc.self.defined_names, address, d.ref),
                            !.objects = d.objects],
                d.objects[d.ref])

\* lines 610-628 for one address of focus
FocusStep(model_, acc, address) ==
    IF address \in DOMAIN model_.cells
    THEN StoreCell(acc, address, DeepCopy(acc.objects, model_.cells[address]))
    ELSE IF address \in DOMAIN model_.defined_names
    THEN StoreDefined(model_, acc, address,
                      DeepCopy(acc.objects, model_.defined_names[address]))
    ELSE acc

RECURSIVE FocusLoop(_, _, _)
FocusLoop(model_, acc, focus) ==
    IF Len(focus) = 0 \/ acc.err /= "" THEN acc
    ELSE FocusLoop(model_, FocusStep(model_, acc, Head(focus)), Tail(focus))

\* lines 630-641: the terms of the formulas of the cells extracted so far that
\* are not among them.  Line 636 replaces a formula by a copy of the formula it
\* is a copy of.
terms_to_copy(self, objs) ==
    UNION {{objs[objs[self.cells[a]].formula].terms[i] :
               i \in 1..Len(objs[objs[self.cells[a]].formula].terms)} :
           a \in {b \in DOMAIN self.cells : objs[self.cells[b]].formula /= 0}}
    \ DOMAIN self.cells

\* lines 630-644
CopyTerms(model_, acc) ==
    IF acc.err /= "" THEN acc
    ELSE CopyCells(model_, acc, Ordered(terms_to_copy(acc.self, acc.objects)))

\* line 646
CompileExtracted(acc, cache) ==
    IF acc.err /= ""
    THEN [ret |-> Raises(acc.err), self |-> acc.self, objects |-> acc.objects,
          cache |-> cache]
    ELSE [ret |-> Returns(Lit(None)), self |-> acc.self,
          objects |-> build_code(acc.self, acc.objects, cache).objects,
          cache |-> build_code(acc.self, acc.objects, cache).cache]

\* ModelCompiler.extract(model, focus): the Model it returns, the store and the
\* parse cache after it
extract(model_, objs, focus, cache) ==
    CompileExtracted(
        CopyTerms(model_, FocusLoop(model_, [self |-> NewModel, objects |-> objs,
                                             err |-> ""], focus)),
        cache)

\* x == y for two formulas of the store (0 is None)
EqualFormulas(objs, x, y) == IF x = 0 \/ y = 0 THEN x = y ELSE objs[x] = objs[y]

\* x == y for two values
EqualValues(objs, x, y) ==
    IF x.ref = 0 \/ y.ref = 0 THEN x = y ELSE objs[x.ref] = objs[y.ref]

\* x == y for two entries of a dict of the Model: the generated __eq__ of the
\* dataclasses compares the fields of two instances; the class XLCell is equal
\* to itself only
EqualEntries(objs, x, y) ==
    IF x = y THEN TRUE
    ELSE IF objs[x].kind /= objs[y].kind \/ objs[x].kind = "type" THEN FALSE
    ELSE IF objs[x].kind = "XLCell"
    THEN /\ objs[x].address = objs[y].address
         /\ EqualValues(objs, objs[x].value, objs[y].value)
         /\ EqualFormulas(objs, objs[x].formula, objs[y].formula)
         /\ objs[x].defined_names = objs[y].defined_names
    ELSE objs[x] = objs[y]

\* lines 238-247: the keys of the dict d index the dict e as well
Comparison(objs, d, e) ==
    IF \E k \in DOMAIN d : k \notin DOMAIN e THEN Raises("KeyError")
    ELSE Returns(\A k \in DOMAIN d : EqualEntries(objs, d[k], e[k]))

\* lines 249-253, cells and names being the two comparisons
AllEqual(cells_comparison, defined_names_comparison) ==
    IF ~cells_comparison.ok THEN cells_comparison
    ELSE IF ~defined_names_comparison.ok THEN defined_names_comparison
    ELSE Returns(IF cells_comparison.val /\ defined_names_comparison.val
                 THEN Lit("True") ELSE Lit("False"))

\* Model.__eq__(self, other_) for two instances of Model
__eq__(self, other_, objs) ==
    AllEqual(Comparison(objs, self.cells, other_.cells),
             Comparison(objs, self.defined_names, other_.defined_names))

(***************************************************************************)
(* The workbooks the Model's methods are called on.                        *)
(*                                                                         *)
(* A workbook is the sequence of its cells as the reader gives them, each  *)
(* [address, value, formula, terms] with formula "" for a cell that holds  *)
(* a value, and the raw defined names.  Every formula belongs to Sheet1.   *)
(***************************************************************************)
MaxCalls == 3

ValueSpec(address, value) ==
    [address |-> address, value |-> Lit(value), formula |-> "", terms |-> <<>>]

FormulaSpec(address, formula, terms) ==
    [address |-> address, value |-> Lit(None), formula |-> formula, terms |-> terms]

Workbooks ==
    {<<ValueSpec("Sheet1!A1", "7"), ValueSpec("Sheet1!A2", "8"),
       FormulaSpec("Sheet1!B1", "=Sheet1!A1+1", <<"Sheet1!A1">>)>>,
     <<FormulaSpec("Sheet1!A1", "=Sheet1!B1+1", <<"Sheet1!B1">>),
       FormulaSpec("Sheet1!B1", "=Sheet1!C1+1", <<"Sheet1!C1">>),
       ValueSpec("Sheet1!C1", "7")>>,
     <<ValueSpec("Sheet1!A1", "7"), ValueSpec("Sheet1!A2", "8"),
       FormulaSpec("Sheet1!B1", "=SUM(Sheet1!A1:A2)", <<"Sheet1!A1:A2">>)>>,
     <<ValueSpec("Sheet1!A1", "7"),
       FormulaSpec("Sheet1!B1", "=rate+1", <<"rate">>)>>,
     <<ValueSpec("Sheet1!A1", "7")>>}

\* the raw name -> address dicts read_defined_names gives
RawNames ==
    {EmptyMap,
     [n \in {"rate"} |-> "Sheet1!$A$1"],
     [n \in {"rate"} |-> "Sheet1!$B$1"],
     [n \in {"gone"} |-> "Sheet1!$C$9"],
     [n \in {"block"} |-> "Sheet1!$A$1:$A$2"],
     [n \in {"block"} |-> "Sheet1!$B$2:$A$1"],
     [n \in {"rate", "block"} |->
         IF n = "rate" THEN "Sheet1!$A$1" ELSE "Sheet1!$A$1:$A$2"]}

\* the cells of specs that own a formula, and how many of them precede cell i
FormulaCells(specs) == {j \in 1..Len(specs) : specs[j].formula /= ""}
Rank(specs, i) == Cardinality({j \in FormulaCells(specs) : j <= i})

\* where the objects of cell i lie in the store: the cells follow the two
\* objects every store holds, the formulas follow the cells
CellRef(specs, i) == 2 + i
FormulaRef(specs, i) ==
    IF specs[i].formula = "" THEN 0 ELSE 2 + Len(specs) + Rank(specs, i)

\* the store after read_cells
IngestedObjects(specs) ==
    <<XLCellClass, ListObject(<<"1", "2">>)>>
    \o [i \in 1..Len(specs) |->
          CellObject(specs[i].address, specs[i].value, FormulaRef(specs, i))]
    \o [k \in 1..Cardinality(FormulaCells(specs)) |->
          LET i == CHOOSE j \in FormulaCells(specs) : Rank(specs, j) = k
          IN FormulaObject("Sheet1", specs[i].formula, specs[i].terms)]

\* parse_archive, lines 273-275: the cells and formulae of read_cells
IngestedModel(specs) ==
    [NewModel EXCEPT
        !.cells = [a \in {specs[i].address : i \in 1..Len(specs)} |->
                      CellRef(specs, CHOOSE i \in 1..Len(specs) : specs[i].address = a)],
        !.formulae = [a \in {specs[i].address : i \in FormulaCells(specs)} |->
                         FormulaRef(specs, CHOOSE i \in 1..Len(specs) :
                                                      specs[i].address = a)]]

\* the addresses and values the callers of set_cell_value and get_cell_value pass
AddressArgs ==
    {StrArg("Sheet1!A1"), StrArg("Sheet1!D1"), CellArg("Sheet1!A1"),
     CellArg("Sheet1!D1"), StrArg("rate"), StrArg("block"), IntArg}

ValueArgs == {Lit("9"), Obj(CallerListRef)}

Targets == {"model", "other"}

\* the state a call found
Before == [model |-> model, other |-> other, objects |-> objects]

\* the Model a call is made on
Target(t) == IF t = "model" THEN model ELSE other

\* the Model a call on t is not made on
Opposite(t) == IF t = "model" THEN "other" ELSE "model"

\* a method of the Model t gave the outcome r
Assign(t, r) ==
    /\ model' = IF t = "model" THEN r.self ELSE model
    /\ other' = IF t = "other" THEN r.self ELSE other
    /\ objects' = r.objects

SessionInit ==
    /\ BuildIdle
    /\ tables = <<>>
    /\ ResolverIdle
    /\ ExpanderIdle
    /\ SanitizerIdle
    /\ \E specs \in Workbooks :
          /\ objects = IngestedObjects(specs)
          /\ model = IngestedModel(specs)
    /\ other = NoModel
    /\ compiler_defined_names \in RawNames
    /\ stage = "ingested"
    /\ call = NoCall
    /\ files = EmptyMap
    /\ parse_cache = EmptyMap
    /\ calls = 0
    /\ written = NoModel

\* a phase of parse_archive gave r: the next phase follows unless it raised
Ingested(op, r, next) ==
    /\ model' = r.self
    /\ objects' = r.objects
    /\ stage' = IF r.ret.ok THEN next ELSE "failed"
    /\ call' = [op |-> op, ret |-> r.ret, before |-> Before]
    /\ UNCHANGED <<other, compiler_defined_names, files, parse_cache, calls, written>>
    /\ UNCHANGED <<modelVars, buildVars, resolverVars, expanderVars, sanitizerVars>>

\* parse_archive, line 277
BuildDefinedNames ==
    /\ stage = "ingested"
    /\ Ingested("build_defined_names",
                build_defined_names(model, objects, compiler_defined_names), "named")

\* parse_archive, line 278; build_ranges (line 279) finds every cell the terms
\* of these workbooks name
LinkCells ==
    /\ stage = "named"
    /\ Ingested("link_cells_to_defined_names",
                link_cells_to_defined_names(model, objects), "ready")

\* t.set_cell_value(address, value) gave r
WriteDone(t, address, value, r) ==
    /\ Assign(t, r)
    /\ call' = [op |-> "set_cell_value", target |-> t, address |-> address,
                value |-> value, ret |-> r.ret, before |-> Before]
    /\ calls' = calls + 1
    /\ UNCHANGED <<compiler_defined_names, stage, files, parse_cache, written>>
    /\ UNCHANGED <<modelVars, buildVars, resolverVars, expanderVars, sanitizerVars>>

SetCellValue(t, address, value) ==
    /\ stage = "ready"
    /\ Target(t) /= NoModel
    /\ calls < MaxCalls
    /\ WriteDone(t, address, value, set_cell_value(Target(t), objects, address, value))

GetCellValue(t, address) ==
    /\ stage = "ready"
    /\ Target(t) /= NoModel
    /\ calls < MaxCalls
    /\ call' = [op |-> "get_cell_value", target |-> t, address |-> address,
                ret |-> get_cell_value(Target(t), objects, address), before |-> Before]
    /\ calls' = calls + 1
    /\ UNCHANGED <<objects, model, other, compiler_defined_names, stage, files,
                   parse_cache, written>>
    /\ UNCHANGED <<modelVars, buildVars, resolverVars, expanderVars, sanitizerVars>>

\* t.build_code() gave st
Compiled(t, st) ==
    /\ objects' = st.objects
    /\ parse_cache' = st.cache
    /\ call' = [op |-> "build_code", target |-> t, ret |-> Returns(Lit(None)),
                before |-> Before]
    /\ calls' = calls + 1
    /\ UNCHANGED <<model, other, compiler_defined_names, stage, files, written>>
    /\ UNCHANGED <<modelVars, buildVars, resolverVars, expanderVars, sanitizerVars>>

BuildCode(t) ==
    /\ stage = "ready"
    /\ Target(t) /= NoModel
    /\ calls < MaxCalls
    /\ Compiled(t, build_code(Target(t), objects, parse_cache))

\* the names of the files a Model is written to and read from
FileNames == {"m.json", "m.gz", "m.GZIP", ".gz", "m.gz.bak", "d.gz/m"}

\* model.persist_to_json_file(fname); written keeps the Model that was written
\* and its store for the comparison with what is read back
Persist(fname) ==
    /\ stage = "ready"
    /\ files = EmptyMap
    /\ calls < MaxCalls
    /\ calls' = calls + 1
    /\ files' = persist_to_json_file(model, objects, files, fname)
    /\ call' = [op |-> "persist_to_json_file", target |-> "model", fname |-> fname,
                ret |-> Returns(Lit(None)), before |-> Before]
    /\ written' = [model |-> model, objects |-> objects]
    /\ UNCHANGED <<objects, model, other, compiler_defined_names, stage, parse_cache>>
    /\ UNCHANGED <<modelVars, buildVars, resolverVars, expanderVars, sanitizerVars>>

\* other = Model(); other.construct_from_json_file(fname, build_code=compile)
\* gave c
Constructed(fname, compile, c) ==
    /\ other' = IF c.loaded.ret.ok THEN c.loaded.self ELSE other
    /\ objects' = c.built.objects
    /\ parse_cache' = c.built.cache
    /\ call' = [op |-> "construct_from_json_file", target |-> "other",
                fname |-> fname, ret |-> c.loaded.ret, before |-> Before]
    /\ calls' = calls + 1
    /\ UNCHANGED <<model, compiler_defined_names, stage, files, written>>
    /\ UNCHANGED <<modelVars, buildVars, resolverVars, expanderVars, sanitizerVars>>

Construct(fname, compile) ==
    /\ stage = "ready"
    /\ other = NoModel
    /\ calls < MaxCalls
    /\ fname \in DOMAIN files
    /\ Constructed(fname, compile,
                   construct_from_json_file(NewModel, objects, files, fname, compile,
                                            parse_cache))

\* the focus lists extract is called with
FocusArgs ==
    {<<"Sheet1!A1">>, <<"Sheet1!B1">>, <<"Sheet1!D1">>, <<"Sheet1!A1", "Sheet1!B1">>,
     <<"rate">>, <<"block">>, <<"Sheet1!Z9">>}

\* other = ModelCompiler.extract(model, focus) gave e
Extracted(focus, e) ==
    /\ other' = IF e.ret.ok THEN e.self ELSE other
    /\ objects' = IF e.ret.ok THEN e.objects ELSE objects
    /\ parse_cache' = IF e.ret.ok THEN e.cache ELSE parse_cache
    /\ call' = [op |-> "extract", target |-> "model", focus |-> focus, ret |-> e.ret,
                before |-> Before]
    /\ calls' = calls + 1
    /\ UNCHANGED <<model, compiler_defined_names, stage, files, written>>
    /\ UNCHANGED <<modelVars, buildVars, resolverVars, expanderVars, sanitizerVars>>

Extract(focus) ==
    /\ stage = "ready"
    /\ other = NoModel
    /\ calls < MaxCalls
    /\ Extracted(focus, extract(model, objects, focus, parse_cache))

\* left == right, left being one of the two Models and right the other
Equals(left) ==
    /\ stage = "ready"
    /\ other /= NoModel
    /\ calls < MaxCalls
    /\ call' = [op |-> "__eq__", target |-> left,
                ret |-> __eq__(Target(left), Target(Opposite(left)), objects),
                before |-> Before]
    /\ calls' = calls + 1
    /\ UNCHANGED <<objects, model, other, compiler_defined_names, stage, files,
                   parse_cache, written>>
    /\ UNCHANGED <<modelVars, buildVars, resolverVars, expanderVars, sanitizerVars>>

ModelNext ==
    \/ BuildDefinedNames
    \/ LinkCells
    \/ \E t \in Targets, address \in AddressArgs, value \in ValueArgs :
          SetCellValue(t, address, value)
    \/ \E t \in Targets, address \in AddressArgs : GetCellValue(t, address)
    \/ \E t \in Targets : BuildCode(t)
    \/ \E fname \in FileNames : Persist(fname)
    \/ \E fname \in FileNames, compile \in BOOLEAN : Construct(fname, compile)
    \/ \E focus \in FocusArgs : Extract(focus)
    \/ \E left \in Targets : Equals(left)

ModelSpec == SessionInit /\ [][ModelNext]_vars

(***************************************************************************)
(* The range expressions resolve_ranges is called on.                      *)
(*                                                                         *)
(* A fragment is written from its parts: sheet is its qualifier (None for  *)
(* none, quoted when quoted is set), c1, r1 the column and row of its left *)
(* side, c2, r2 those of its right side when sep is set (NoneInt for a     *)
(* part that is not written), dollar whether the parts carry the $ sign.   *)
(* expr holds the fragments and the arguments of the call.                 *)
(***************************************************************************)
MaxCells == 12

Frag(sheet, quoted, c1, r1, sep, c2, r2) ==
    [sheet |-> sheet, quoted |-> quoted, c1 |-> c1, r1 |-> r1, sep |-> sep,
     c2 |-> c2, r2 |-> r2, dollar |-> FALSE]

\* one side of a fragment as written: B, 2, B2, $B$2
SideText(c, r, dollar) ==
    (IF c = NoneInt THEN "" ELSE (IF dollar THEN "$" ELSE "") \o ColumnLetters(c))
    \o (IF r = NoneInt THEN "" ELSE (IF dollar THEN "$" ELSE "") \o IntToStr(r))

\* the fragment without its qualifier
FragRange(f) ==
    SideText(f.c1, f.r1, f.dollar)
    \o (IF f.sep THEN ":" \o SideText(f.c2, f.r2, f.dollar) ELSE "")

QualifierText(f) ==
    IF f.sheet = None THEN ""
    ELSE IF f.quoted THEN "'" \o f.sheet \o "'!"
    ELSE f.sheet \o "!"

FragText(f) == QualifierText(f) \o FragRange(f)

RECURSIVE JoinFrags(_)
JoinFrags(fs) ==
    IF Len(fs) = 0 THEN ""
    ELSE IF Len(fs) = 1 THEN FragText(fs[1])
    ELSE FragText(fs[1]) \o "," \o JoinFrags(Tail(fs))

Expr(fs, sheet, max_row) ==
    [frags |-> fs, ranges |-> JoinFrags(fs), default_sheet |-> sheet,
     sheet_max_row |-> max_row]

\* the shapes of a fragment without its qualifier: cells, closed ranges (one
\* beyond column Z, one written backwards, one from row 0), whole columns, whole
\* rows, and a range range_boundaries refuses
Shapes ==
    {Frag(None, FALSE, 1, 1, FALSE, NoneInt, NoneInt),
     Frag(None, FALSE, 1, 1, TRUE, 2, 2),
     Frag(None, FALSE, 2, 2, TRUE, 3, 4),
     Frag(None, FALSE, 26, 1, TRUE, 28, 1),
     Frag(None, FALSE, 2, 2, TRUE, 1, 1),
     Frag(None, FALSE, 1, 0, TRUE, 1, 2),
     Frag(None, FALSE, 1, NoneInt, TRUE, 1, NoneInt),
     Frag(None, FALSE, 2, NoneInt, TRUE, 3, NoneInt),
     Frag(None, FALSE, 3, NoneInt, FALSE, NoneInt, NoneInt),
     Frag(None, FALSE, NoneInt, 1, TRUE, NoneInt, 1),
     Frag(None, FALSE, NoneInt, 2, TRUE, NoneInt, 3),
     Frag(None, FALSE, 1, 1, TRUE, 2, NoneInt)}

Qualified(f, sheet, quoted) == [f EXCEPT !.sheet = sheet, !.quoted = quoted]

\* the qualifiers a fragment is written with: none, a plain and a quoted title
Qualifiers == {<<None, FALSE>>, <<"Sheet1", FALSE>>, <<"Sheet2", FALSE>>,
               <<"Sheet1", TRUE>>, <<"My Sheet", TRUE>>}

SingleFragments ==
    {Qualified(f, q[1], q[2]) : f \in Shapes, q \in Qualifiers}
    \cup {[Frag(None, FALSE, 1, 1, TRUE, 2, 2) EXCEPT !.dollar = TRUE]}

\* the cells and closed ranges that fragments of a longer expression are
ListShapes ==
    {Frag(None, FALSE, 1, 1, FALSE, NoneInt, NoneInt),
     Frag(None, FALSE, 2, 1, TRUE, 3, 2)}

ListFragments == {Qualified(f, q[1], q[2]) : f \in ListShapes, q \in Qualifiers}

FragmentLists ==
    {<<f>> : f \in SingleFragments}
    \cup {<<f, g>> : f \in ListFragments, g \in ListFragments}
    \cup {<<Qualified(f, "Sheet1", FALSE), f, Qualified(f, q[1], q[2])>> :
             f \in ListShapes, q \in Qualifiers}

Exprs ==
    {Expr(fs, sheet, max_row) :
        fs \in FragmentLists, sheet \in {"Sheet1", "Data"}, max_row \in {NoneInt, 3}}

\* the number of cells lines 81-84 add for a fragment with bounds b
BoxCells(b) ==
    IF ~b.ok THEN 0
    ELSE Max(0, b.max_row - b.min_row + 1) * Max(0, b.max_col - b.min_col + 1)

\* whether the matrix of the call fits the model: no fragment adds more than
\* MaxCells cells
Expandable(e) ==
    \A i \in 1..Len(e.frags) :
        BoxCells(FragmentBounds(FragRange(e.frags[i]), e.sheet_max_row)) <= MaxCells

ExpandInit ==
    /\ BuildIdle
    /\ tables = <<>>
    /\ ResolverIdle
    /\ SessionIdle
    /\ expr \in Exprs
    /\ expanded = NotExpanded
    /\ SanitizerIdle

\* the caller's call of resolve_ranges(ranges, default_sheet, sheet_max_row)
Expand ==
    /\ pc = "idle"
    /\ expr /= NoExpr
    /\ expanded = NotExpanded
    /\ Expandable(expr)
    /\ expanded' = resolve_ranges(expr.ranges, expr.default_sheet, expr.sheet_max_row)
    /\ UNCHANGED <<modelVars, buildVars, resolverVars, sessionVars, sanitizerVars, expr>>

ExpandNext == Expand

ExpandSpec == ExpandInit /\ [][ExpandNext]_vars

(***************************************************************************)
(* Properties of build_ranges, checked under Spec.                         *)
(***************************************************************************)
\* the cells of what a worker built, none when the construction raised
BuiltCells(future) == IF future.ok THEN MatrixCells(future.cells) ELSE {}

\* the cells of the range a table term resolved to
TableTermCells(table_range) ==
    IF ~table_range.ok THEN {}
    ELSE BuiltCells(build_single_range([key |-> table_range.val,
                                        target |-> table_range.val,
                                        type |-> "table", cur_sheet |-> None]))

\* the cells of a cell range
RangeTermCells(full_range) ==
    BuiltCells(build_single_range([key |-> full_range, target |-> full_range,
                                   type |-> "range",
                                   cur_sheet |-> Split(full_range, "!")[1]]))

\* the cell set of a term of the formula at formula_addr: the cells of the range
\* it resolves to, itself for a single cell, nothing when its resolution fails
TermCells(range_ref, formula_addr) ==
    IF HasChar(range_ref, "[") /\ HasChar(range_ref, "]")
    THEN TableTermCells(resolve_table_ranges(range_ref, tables, formula_addr))
    ELSE IF HasChar(range_ref, ":") THEN RangeTermCells(FullRange(range_ref))
    ELSE {range_ref}

\* whether the cells of a built range are missing
BuildFailed(future) == ~future.ok

TableTermFailed(table_range) ==
    \/ ~table_range.ok
    \/ BuildFailed(build_single_range([key |-> table_range.val,
                                       target |-> table_range.val,
                                       type |-> "table", cur_sheet |-> None]))

RangeTermFailed(full_range) ==
    BuildFailed(build_single_range([key |-> full_range, target |-> full_range,
                                    type |-> "range",
                                    cur_sheet |-> Split(full_range, "!")[1]]))

\* whether the resolution of the term fails
TermFailed(range_ref, formula_addr) ==
    IF HasChar(range_ref, "[") /\ HasChar(range_ref, "]")
    THEN TableTermFailed(resolve_table_ranges(range_ref, tables, formula_addr))
    ELSE IF HasChar(range_ref, ":") THEN RangeTermFailed(FullRange(range_ref))
    ELSE FALSE

\* the key model.ranges would hold the term's range under
TermKey(range_ref, formula_addr) ==
    IF HasChar(range_ref, "[") /\ HasChar(range_ref, "]")
    THEN ProcessedRange(range_ref, formula_addr)
    ELSE FullRange(range_ref)

\* the i-th formula of model.formulae
FormulaOf(i) == heap[formulae[i].fid]

\* the union of the cell sets of the successfully resolved terms of the i-th formula
ResolvedCells(i) ==
    UNION {TermCells(FormulaOf(i).terms[j], formulae[i].key) :
              j \in 1..Len(FormulaOf(i).terms)}

\* the terms of the i-th formula whose resolution fails
FailedTerms(i) ==
    {j \in 1..Len(FormulaOf(i).terms) :
        TermFailed(FormulaOf(i).terms[j], formulae[i].key)}

\* whether phase 1 recorded the i-th formula
Recorded(i) ==
    \E m \in 1..Len(formula_metadata) : formula_metadata[m].addr = formulae[i].key

\* C1: after build_ranges completes, the associated_cells of every formula of
\* model.formulae, a deduplicated one included, is the union of the cell sets of
\* its successfully resolved terms.
C1_EveryFormulaAssociated ==
    pc = "done" =>
        \A i \in 1..Len(formulae) : FormulaOf(i).associated_cells = ResolvedCells(i)

\* C2: after build_ranges completes, every address in the matrix of every range
\* the call resolved is a key of model.cells, every cell the call created holds
\* the empty placeholder value, and every cell that existed before the call is
\* still there with its value.
C2_CellsMaterialised ==
    pc = "done" =>
        /\ \A k \in DOMAIN range_results : MatrixCells(ranges[k]) \subseteq DOMAIN cells
        /\ \A a \in DOMAIN cells \ DOMAIN cells_before : cells[a] = XLCell(a, "")
        /\ \A a \in DOMAIN cells_before :
              a \in DOMAIN cells /\ cells[a].value = cells_before[a].value

\* a build that created a placeholder cell and resolved a range over a cell that
\* held a value before the call
C2_Witness ==
    /\ pc = "done"
    /\ DOMAIN cells \ DOMAIN cells_before /= {}
    /\ \E k \in DOMAIN range_results :
          \E a \in MatrixCells(ranges[k]) \cap DOMAIN cells_before :
              cells_before[a].value \notin {"", None}

\* C3: when the resolution of a term fails, the build still completes, the other
\* terms of the formula are resolved, and the failed term contributes nothing: no
\* element of the formula's associated_cells and no entry of model.ranges.
C3_FailedTermContributesNothing ==
    pc = "done" =>
        \A i \in 1..Len(formulae) :
            FailedTerms(i) /= {} =>
                /\ FormulaOf(i).associated_cells \subseteq ResolvedCells(i)
                /\ Recorded(i) => ResolvedCells(i) \subseteq FormulaOf(i).associated_cells
                /\ \A j \in FailedTerms(i) :
                      TermKey(FormulaOf(i).terms[j], formulae[i].key)
                          \notin DOMAIN ranges

(***************************************************************************)
(* Properties of resolve_table_ranges, checked under ResolveSpec.          *)
(***************************************************************************)
\* the call has returned or raised
Resolved == resolved /= Pending

ItemSet(items) == {items[i] : i \in 1..Len(items)}

\* the table of the reference, when it is registered under the reference's name
TheTable == TableAt(tables, request.table)

\* the bounds of a resolved range "<sheet>!<range>"
ResultBounds(val) == range_boundaries(RSplit1Last(val, "!"))

\* the last data row of the rule table
RuleDataMax(t, b) == IF t.has_totals_row THEN b.max_row - 1 ELSE b.max_row

\* the rows one item specifier stands for in the rule table
RuleRows(item, t, b) ==
    CASE item = "All" -> [lo |-> b.min_row, hi |-> b.max_row]
      [] item = "Headers" -> [lo |-> b.min_row,
                              hi |-> b.min_row + t.header_row_count - 1]
      [] item = "Data" -> [lo |-> b.min_row + t.header_row_count,
                           hi |-> RuleDataMax(t, b)]
      [] item = "Totals" -> [lo |-> b.max_row, hi |-> b.max_row]

\* the rows of a set of item specifiers: the data rows for none, else the union
\* of the contributing bounds
RuleBounds(S, t, b) ==
    IF S = {} THEN RuleRows("Data", t, b)
    ELSE [lo |-> CHOOSE lo \in {RuleRows(x, t, b).lo : x \in S} :
                     \A x \in S : lo <= RuleRows(x, t, b).lo,
          hi |-> CHOOSE hi \in {RuleRows(x, t, b).hi : x \in S} :
                     \A x \in S : hi >= RuleRows(x, t, b).hi]

\* the valid sets of item specifiers of the rule table, for the table t
ValidItemSet(S, t) ==
    /\ S \in {{}, {"All"}, {"Headers"}, {"Data"}, {"Totals"}, {"Headers", "Data"},
              {"Data", "Totals"}}
    /\ "Totals" \in S => t.has_totals_row

RowsAre(b, rows) == b.ok /\ b.min_row = rows.lo /\ b.max_row = rows.hi

\* C4: for every table and every valid set of item specifiers, the resolved range
\* has the row bounds of the rule table.
C4_RuleTable ==
    (/\ Resolved
     /\ request /= Malformed
     /\ HasTable(tables, request.table)
     /\ request.column = ""
     /\ Len(request.items) = Cardinality(ItemSet(request.items))
     /\ ValidItemSet(ItemSet(request.items), TheTable))
    => /\ resolved.ok
       /\ RowsAre(ResultBounds(resolved.val),
                  RuleBounds(ItemSet(request.items), TheTable,
                             range_boundaries(TheTable.cell_range)))

\* C5: a reference whose specifier list holds This Row together with Headers,
\* Totals, Data or All fails, in whichever order the specifiers are written.
C5_ThisRowExcludesOthers ==
    (/\ Resolved
     /\ "This Row" \in ItemSet(request.items)
     /\ ItemSet(request.items) \cap {"Headers", "Totals", "Data", "All"} /= {})
    => ~resolved.ok

\* C6: a reference whose specifier list holds Totals fails against a table without
\* a totals row, whatever the other specifiers and their order.
C6_TotalsNeedsTotalsRow ==
    (/\ Resolved
     /\ "Totals" \in ItemSet(request.items)
     /\ \A i \in 1..Len(tables) : ~tables[i].has_totals_row)
    => ~resolved.ok

\* the reference with its item specifiers written in the order perm
Permuted(perm) ==
    WrittenText(request.table,
                [i \in 1..Len(request.items) |-> request.items[perm[i]]],
                request.column, request.layout)

\* C7: for the valid combinations {Headers, Data} and {Data, Totals}, every order
\* of the same specifiers resolves to the identical range string (or fails alike).
C7_OrderIndependent ==
    (/\ Resolved
     /\ ItemSet(request.items) \in {{"Headers", "Data"}, {"Data", "Totals"}})
    => \A perm \in Permutations(1..Len(request.items)) :
           resolve_table_ranges(Permuted(perm), tables, cur_cell_addr) = resolved

\* [[#Data],[#Headers]] resolved to a range on a table with two header rows
C7_Witness ==
    /\ Resolved
    /\ resolved.ok
    /\ request.items = <<"Data", "Headers">>
    /\ HasTable(tables, request.table)
    /\ TheTable.header_row_count = 2

\* the column name of a single-column component
ColumnName(column) == SubSeq(column, 2, Len(column) - 1)

\* C8: looking up the disambiguated name of a column (N for the first occurrence
\* of N, N_k for the k-th) resolves to that column's own position, never to
\* another column's.
C8_ColumnsUniquelyAddressable ==
    (/\ Resolved
     /\ HasTable(tables, request.table)
     /\ request.items = <<>>
     /\ request.column /= ""
     /\ ~Contains(request.column, "]:["))
    => \A k \in 1..Len(TheTable.columns) :
           EffectiveName(TheTable.columns, k) = ColumnName(request.column)
           => /\ resolved.ok
              /\ ResultBounds(resolved.val).min_col
                     = range_boundaries(TheTable.cell_range).min_col + k - 1
              /\ ResultBounds(resolved.val).max_col
                     = range_boundaries(TheTable.cell_range).min_col + k - 1

\* the tables registered as <table>_<sheet> on the sheet <sheet>
RenamedFor(table) ==
    {i \in 1..Len(tables) : tables[i].name = table \o "_" \o tables[i].sheet}

\* the tables dict with the entry i registered under the name table
RegisteredAs(i, table) == <<[tables[i] EXCEPT !.name = table]>>

\* C9: when the table name T of a reference is no key of tables but a table is
\* registered as T_<sheet> on the sheet <sheet>, resolve uses that table, also for
\* a T that holds an underscore; when there is none, it fails as table-not-found.
C9_TableNameTranslation ==
    (/\ Resolved
     /\ request /= Malformed
     /\ ~HasTable(tables, request.table))
    => IF RenamedFor(request.table) /= {}
       THEN \E i \in RenamedFor(request.table) :
                resolved = resolve_table_ranges(request.text,
                                                RegisteredAs(i, request.table),
                                                cur_cell_addr)
       ELSE ~resolved.ok /\ resolved.cause = "TableNotFoundError"

\* the call raised an exception of class cls
RaisedTo(cls) == ~resolved.ok /\ resolved.err = cls

\* C10: the caller of a failing resolve sees the error kind of the failing stage:
\* TableNotFoundError for an unknown table, ColumnNotFoundError for an absent
\* column, InvalidItemSpecifierError for an unrecognised specifier token and
\* InvalidTableReferenceError for malformed grammar or a forbidden combination.
C10_DistinctErrorKinds ==
    Resolved =>
        /\ (/\ request /= Malformed
            /\ ~HasTable(tables, request.table)
            /\ RenamedFor(request.table) = {})
           => RaisedTo("TableNotFoundError")
        /\ (/\ HasTable(tables, request.table)
            /\ request.items = <<>>
            /\ request.column = "[Col9]")
           => RaisedTo("ColumnNotFoundError")
        /\ (/\ HasTable(tables, request.table)
            /\ request.items = <<"Bogus">>)
           => RaisedTo("InvalidItemSpecifierError")
        /\ (\/ request = Malformed
            \/ /\ HasTable(tables, request.table)
               /\ request.items = <<"Headers", "Totals">>
               /\ TheTable.has_totals_row)
           => RaisedTo("InvalidTableReferenceError")

(***************************************************************************)
(* Properties of the Range Expander, checked under ExpandSpec.             *)
(***************************************************************************)
\* whether range_boundaries accepts the shape of f and f's rows are rows of a
\* sheet (1-based)
ValidFragment(f) ==
    /\ f.c1 /= NoneInt \/ f.r1 /= NoneInt
    /\ f.sep => \/ f.c1 /= NoneInt /\ f.c2 /= NoneInt /\ f.r1 /= NoneInt /\ f.r2 /= NoneInt
                \/ f.c1 /= NoneInt /\ f.c2 /= NoneInt /\ f.r1 = NoneInt /\ f.r2 = NoneInt
                \/ f.c1 = NoneInt /\ f.c2 = NoneInt /\ f.r1 /= NoneInt /\ f.r2 /= NoneInt
    /\ f.r1 /= 0 /\ f.r2 /= 0

\* the bounds of a fragment by the rule: the right side of a fragment without a
\* separator is its left side; an open lower bound is 1, an open upper column
\* bound 18278, an open upper row bound the sheet's maximum row or 1048576
RuleFragmentBounds(f, max_row) ==
    LET hi_col == IF f.sep THEN f.c2 ELSE f.c1
        hi_row == IF f.sep THEN f.r2 ELSE f.r1
    IN [min_col |-> IF f.c1 = NoneInt THEN 1 ELSE f.c1,
        min_row |-> IF f.r1 = NoneInt THEN 1 ELSE f.r1,
        max_col |-> IF hi_col = NoneInt THEN 18278 ELSE hi_col,
        max_row |-> IF hi_row /= NoneInt THEN hi_row
                    ELSE IF max_row /= NoneInt THEN max_row ELSE 1048576]

\* the inclusive cross product of the rows and columns of b as a matrix: row i
\* is row min_row + i - 1, its j-th address that of column min_col + j - 1
RuleMatrix(b, sheet) ==
    [i \in 1..Max(0, b.max_row - b.min_row + 1) |->
        [j \in 1..Max(0, b.max_col - b.min_col + 1) |->
            sheet \o "!" \o ColumnLetters(b.min_col + j - 1)
            \o IntToStr(b.min_row + i - 1)]]

\* range_cells after the loop of lines 61-84 on the call e
RangeCells(e) ==
    RangesFold([ok |-> TRUE, err |-> "", sheet |-> None, rows |-> {}, cells |-> {}],
               Split(e.ranges, ","), e.sheet_max_row)

\* whether range_cells holds the corners of the box b and nothing beside them
HoldsBox(acc, b) ==
    /\ acc.ok
    /\ b.min_row <= b.max_row /\ b.min_col <= b.max_col =>
          /\ <<b.min_row, b.min_col>> \in acc.cells
          /\ <<b.min_row, b.max_col>> \in acc.cells
          /\ <<b.max_row, b.min_col>> \in acc.cells
          /\ <<b.max_row, b.max_col>> \in acc.cells
    /\ \A r \in {b.min_row - 1, b.min_row, b.max_row, b.max_row + 1} :
         \A c \in {b.min_col - 1, b.min_col, b.max_col, b.max_col + 1} :
            <<r, c>> \in acc.cells =>
                r \in b.min_row..b.max_row /\ c \in b.min_col..b.max_col

ExpectedSheet(f, default) == IF f.sheet = None THEN default ELSE f.sheet

\* C16: for a single-fragment range expression the Range Expander works on the
\* bounds of the rule (an open lower bound is 1, an open upper column bound
\* 18278, an open upper row bound the supplied sheet maximum row when one is
\* known and 1048576 otherwise), range_cells holds exactly that box, and the
\* matrix returned is the inclusive cross product rows min_row..max_row by
\* columns min_col..max_col: its rows ascending, each with its addresses
\* ascending by column and without duplicates.
C16_SingleFragmentExpansion ==
    (Len(expr.frags) = 1 /\ ValidFragment(expr.frags[1])) =>
        LET f == expr.frags[1]
            b == RuleFragmentBounds(f, expr.sheet_max_row)
            code == FragmentBounds(FragRange(f), expr.sheet_max_row)
        IN /\ code.ok
           /\ <<code.min_col, code.min_row, code.max_col, code.max_row>>
                 = <<b.min_col, b.min_row, b.max_col, b.max_row>>
           /\ HoldsBox(RangeCells(expr), b)
           /\ expanded /= NotExpanded =>
                 expanded = [ok |-> TRUE, err |-> "",
                             sheet |-> ExpectedSheet(f, expr.default_sheet),
                             cells |-> RuleMatrix(b, ExpectedSheet(f,
                                                              expr.default_sheet))]

\* a whole-column fragment was expanded up to the sheet's maximum row
C16_Witness ==
    /\ Len(expr.frags) = 1
    /\ ValidFragment(expr.frags[1])
    /\ expr.frags[1].r1 = NoneInt
    /\ expr.sheet_max_row = 3
    /\ expanded.ok
    /\ Len(expanded.cells) = 3

\* the sheets the qualified fragments of a call name
QualifierSheets(e) ==
    {e.frags[i].sheet : i \in {j \in 1..Len(e.frags) : e.frags[j].sheet /= None}}

\* the part of an address after its sheet: it names no further sheet
OnSheet(address, sheet) ==
    /\ StartsWith(address, sheet \o "!")
    /\ ~HasChar(SubSeq(address, Len(sheet) + 2, Len(address)), "!")

\* C17: when a comma-separated range expression has two fragments with different
\* sheet qualifiers the expansion fails with a value error and returns no
\* matrix; whenever the expansion succeeds every address of the matrix carries
\* one and the same sheet, the qualifier of the fragments, or the default sheet
\* when no fragment is qualified.
C17_OneSheet ==
    expanded /= NotExpanded =>
        /\ Cardinality(QualifierSheets(expr)) >= 2 =>
              expanded = [ok |-> FALSE, err |-> "ValueError", sheet |-> None,
                          cells |-> <<>>]
        /\ expanded.ok =>
              \E sheet \in QualifierSheets(expr) \cup {expr.default_sheet} :
                 /\ QualifierSheets(expr) \subseteq {sheet}
                 /\ expanded.sheet = sheet
                 /\ \A i \in 1..Len(expanded.cells) :
                       \A j \in 1..Len(expanded.cells[i]) :
                          OnSheet(expanded.cells[i][j], sheet)

\* a call with fragments of two sheets failed
C17_Witness ==
    /\ Cardinality(QualifierSheets(expr)) >= 2
    /\ expanded.err = "ValueError"

\* a call with a qualified and an unqualified fragment succeeded
C17_MixedWitness ==
    /\ Len(expr.frags) >= 2
    /\ \E i \in 1..Len(expr.frags) : expr.frags[i].sheet = None
    /\ QualifierSheets(expr) = {"Sheet2"}
    /\ expanded.ok

(***************************************************************************)
(* Properties of the Model's methods, checked under ModelSpec.             *)
(***************************************************************************)
\* whether two values are equal as Python compares them: lists by their items
SameValue(objs, x, y) ==
    IF x.ref = 0 \/ y.ref = 0 THEN x = y
    ELSE objs[x.ref].kind = objs[y.ref].kind /\ objs[x.ref].items = objs[y.ref].items

\* the address a call on the Model self is about: that of the cell a defined
\* name is bound to, or the address passed
AddressOf(self, objs, address) ==
    IF address.type = "str" /\ address.s \in DOMAIN self.defined_names
       /\ objs[self.defined_names[address.s]].kind = "XLCell"
    THEN objs[self.defined_names[address.s]].address
    ELSE address.s

\* whether the Model self holds a cell object at address a
HoldsCell(self, objs, a) == a \in DOMAIN self.cells /\ objs[self.cells[a]].kind = "XLCell"

\* C11: after set_cell_value(address, v), for an address given as a string or as
\* a cell object, of a cell that exists or not, the model holds a cell object at
\* the address (at the address of the cell it is bound to when it is a defined
\* name) and get_cell_value(address) returns v; the value stored is a copy of v,
\* not the caller's object.
C11_SetThenGet ==
    (call.op = "set_cell_value" /\ call.address.type \in {"str", "XLCell"}) =>
        LET self == Target(call.target)
            a == AddressOf(call.before[call.target], call.before.objects, call.address)
        IN /\ call.ret.ok
           /\ HoldsCell(self, objects, a)
           /\ get_cell_value(self, objects, call.address).ok
           /\ SameValue(objects, get_cell_value(self, objects, call.address).val,
                        call.value)
           /\ call.value.ref /= 0 => objects[self.cells[a]].value.ref /= call.value.ref

\* C12: get_cell_value on an address that is not in the model returns 0 without
\* raising and leaves the model unchanged: no cell is created, no map modified;
\* get_cell_value and set_cell_value with an address that is neither a string
\* nor a cell object raise a type error and leave the model unchanged.
C12_AbsentAndIllTyped ==
    /\ (call.op = "get_cell_value" /\ call.address.type \in {"str", "XLCell"}
        /\ AddressOf(Target(call.target), objects, call.address)
              \notin DOMAIN call.before[call.target].cells) =>
           /\ call.ret = Returns(Lit("0"))
           /\ Before = call.before
    /\ (call.op \in {"get_cell_value", "set_cell_value"}
        /\ call.address.type \notin {"str", "XLCell"}) =>
           /\ call.ret = Raises("TypeError")
           /\ Before = call.before

\* get_cell_value was called for a cell the model does not hold
C12_Witness ==
    /\ call.op = "get_cell_value"
    /\ call.address = StrArg("Sheet1!D1")
    /\ "Sheet1!D1" \notin DOMAIN Target(call.target).cells
    /\ call.ret.ok

\* C13: build_code gives every cell that owns a formula the AST obtained by
\* parsing the formula's text with the model's current name -> address mapping
\* of all defined names, also when the cache serves the result.
C13_ParsedWithDefinedNames ==
    call.op = "build_code" =>
        \A a \in DOMAIN Target(call.target).cells :
            LET c == objects[Target(call.target).cells[a]]
            IN c.formula /= 0 =>
                  objects[c.formula].ast =
                      Parse(objects[c.formula].formula,
                            NameAddresses(Target(call.target), objects))

\* whether the value x in the store objsA and the value y in the store objsB are
\* the same value
SameContent(objsA, x, objsB, y) ==
    IF x.ref = 0 \/ y.ref = 0 THEN x = y
    ELSE objsA[x.ref].kind = objsB[y.ref].kind /\ objsA[x.ref].items = objsB[y.ref].items

\* whether the formula a of the store objsA and the formula b of the store objsB
\* (0 for none) have the same text
SameFormula(objsA, a, objsB, b) ==
    IF a = 0 \/ b = 0 THEN a = b
    ELSE objsA[a].formula = objsB[b].formula /\ objsA[a].sheet_name = objsB[b].sheet_name

\* whether the object x and the object y are equal entries of a map
SameObject(objsA, x, objsB, y) ==
    /\ x.kind = y.kind
    /\ x.kind = "XLCell" =>
          /\ x.address = y.address
          /\ SameContent(objsA, x.value, objsB, y.value)
          /\ SameFormula(objsA, x.formula, objsB, y.formula)
    /\ x.kind = "XLFormula" => x.formula = y.formula /\ x.sheet_name = y.sheet_name
    /\ x.kind = "XLRange" => x.address = y.address /\ x.name = y.name /\ x.cells = y.cells

\* whether the dict dA of the store objsA and the dict dB of the store objsB
\* have the same keys and equal entries
SameDict(objsA, dA, objsB, dB) ==
    /\ DOMAIN dA = DOMAIN dB
    /\ \A k \in DOMAIN dA : SameObject(objsA, objsA[dA[k]], objsB, objsB[dB[k]])

\* whether the four maps of the Model a and of the Model b agree
SameMaps(objsA, a, objsB, b) ==
    /\ SameDict(objsA, a.cells, objsB, b.cells)
    /\ SameDict(objsA, a.defined_names, objsB, b.defined_names)
    /\ SameDict(objsA, a.formulae, objsB, b.formulae)
    /\ SameDict(objsA, a.ranges, objsB, b.ranges)

\* the file names whose extension, the part os.path.splitext splits off, is
\* .gz or .gzip in any case
GzipNames == {"m.gz", "m.GZIP"}

\* the file names that end in .gz or .gzip, in any case
EndsInGzip(fname) == EndsWith(Lower(fname), ".gz") \/ EndsWith(Lower(fname), ".gzip")

\* what C14 says of the round trip itself: loading a file a Model was persisted
\* to completes and reproduces the four maps of the Model that was written
RoundTrip ==
    call.op = "construct_from_json_file" =>
        /\ call.ret.ok
        /\ SameMaps(written.objects, written.model, objects, other)

TermsOf(self, objs, a) ==
    IF objs[self.cells[a]].formula = 0 THEN {}
    ELSE {objs[objs[self.cells[a]].formula].terms[i] :
             i \in 1..Len(objs[objs[self.cells[a]].formula].terms)}

\* C15: for every built model and every focus set, extract completes and returns
\* a self-contained model: every reference term of every formula-bearing cell
\* of the extracted model, the cells pulled in for another cell's formula
\* included, is itself a cell of the extracted model.
C15_SelfContained ==
    call.op = "extract" =>
        /\ call.ret.ok
        /\ \A a \in DOMAIN other.cells : TermsOf(other, objects, a) \subseteq DOMAIN other.cells

\* whether the dicts d and e have the same keys with equal entries
Agree(objs, d, e) ==
    /\ DOMAIN d = DOMAIN e
    /\ \A k \in DOMAIN d : EqualEntries(objs, d[k], e[k])

\* C18: a == b is true exactly when a and b have the same class and their cells
\* maps and their defined-names maps agree entry by entry (the same keys with
\* equal entries on both sides); the ranges and formulae maps do not influence
\* the result, and the comparison yields a boolean, never an error, for any two
\* models.
C18_EqualityByEntries ==
    call.op = "__eq__" =>
        /\ call.ret.ok
        /\ call.ret.val = Lit("True") <=>
              /\ Agree(objects, Target(call.target).cells,
                       Target(Opposite(call.target)).cells)
              /\ Agree(objects, Target(call.target).defined_names,
                       Target(Opposite(call.target)).defined_names)

\* the objects a Model's dicts refer to
Entries(self) ==
    {self.cells[k] : k \in DOMAIN self.cells}
    \cup {self.defined_names[k] : k \in DOMAIN self.defined_names}

\* whether the Model self and every object reachable from it are now as the
\* call found them
AsBefore(t) ==
    /\ Target(t) = call.before[t]
    /\ \A r \in Reached(Target(t), objects) \cup Entries(Target(t)) :
          objects[r] = call.before.objects[r]

\* whether every value read through the Model t is now what it was when the
\* call was made
ReadsAsBefore(t) ==
    \A a \in DOMAIN call.before[t].cells :
        LET was == get_cell_value(call.before[t], call.before.objects, StrArg(a))
            now == get_cell_value(Target(t), objects, StrArg(a))
        IN /\ was.ok = now.ok
           /\ SameContent(call.before.objects, was.val, objects, now.val)

\* C19: extract copies by value and leaves the source model unchanged: after
\* extract(model, focus) the source's cells, defined names, formulae and ranges
\* are as before, no cell or defined-name object of the extracted model is
\* shared with the source, and a later set_cell_value on either model never
\* changes a value seen through the other.
C19_ExtractCopiesByValue ==
    /\ call.op = "extract" => AsBefore("model")
    /\ (call.op = "extract" /\ call.ret.ok) => Entries(other) \cap Entries(model) = {}
    /\ (call.op = "set_cell_value" /\ call.before.other /= NoModel /\ files = EmptyMap) =>
          ReadsAsBefore(Opposite(call.target))

\* whether the cell at address a of the Model self carries name in its backlink
\* list
Carries(self, objs, a, name) ==
    /\ a \in DOMAIN self.cells
    /\ \E i \in 1..Len(objs[self.cells[a]].defined_names) :
          objs[self.cells[a]].defined_names[i] = name

\* the addresses the defined name bound to defn covers
Covered(defn) ==
    IF defn.kind = "XLRange"
    THEN {Flatten(defn.cells)[i] : i \in 1..Len(Flatten(defn.cells))}
    ELSE {defn.address}

\* C20: build_defined_names followed by link_cells_to_defined_names, the order
\* of parse_archive, completes without error for every ingested input, and
\* afterwards every cell address inside the matrix of every range-bound defined
\* name is a cell of the model carrying that name in its backlink list, and
\* every cell bound to a single-cell defined name carries that name.
C20_NamesLinked ==
    /\ call.op \in {"build_defined_names", "link_cells_to_defined_names"} => call.ret.ok
    /\ (call.op = "link_cells_to_defined_names" /\ call.ret.ok) =>
          \A name \in DOMAIN model.defined_names :
              \A a \in Covered(objects[model.defined_names[name]]) :
                  Carries(model, objects, a, name)

(***************************************************************************)
(* Properties of build_ranges on formulas with a This Row specifier,       *)
(* checked under Spec.                                                     *)
(***************************************************************************)
\* whether the i-th and the j-th formula are two formulas of one sheet with the
\* same text, which contains a This Row specifier
SameThisRowText(i, j) ==
    /\ i /= j
    /\ FormulaKey(FormulaOf(i)) = FormulaKey(FormulaOf(j))
    /\ Contains(FormulaOf(i).formula, "[#This Row]")

\* the cells of the column Col1 of the table T in the row of the i-th host cell
ThisRowCells(i) == {"Sheet1!A" \o IntToStr(i + 1)}

\* the keys the terms of the i-th formula are stored under
TermKeys(i) ==
    {TermKey(FormulaOf(i).terms[k], formulae[i].key) : k \in 1..Len(FormulaOf(i).terms)}

\* C21: two formulas on the same sheet with byte-identical text that contains a
\* [#This Row] specifier, hosted in cells of different rows, are neither of them
\* skipped by the deduplication: after build_ranges each formula's
\* associated_cells holds the table cells of its own host cell's row, and
\* model.ranges holds a separate range entry for each host cell.
C21_ThisRowPerHost ==
    pc = "done" =>
        \A i, j \in 1..Len(formulae) :
            SameThisRowText(i, j) =>
                /\ Recorded(i)
                /\ FormulaOf(i).associated_cells = ThisRowCells(i)
                /\ TermKeys(i) \subseteq DOMAIN ranges
                /\ TermKeys(i) \cap TermKeys(j) = {}
                /\ \A k \in TermKeys(i) : MatrixCells(ranges[k]) = ThisRowCells(i)

\* the build of a workbook with the same This Row formula in two rows is done
C21_Witness ==
    /\ pc = "done"
    /\ \E i, j \in 1..Len(formulae) : SameThisRowText(i, j)

(***************************************************************************)
(* Properties of the workers of build_ranges, checked under Spec.          *)
(***************************************************************************)
\* the range_data whose range can be built
Buildable == {rd \in unique_ranges : build_single_range(rd).ok}

\* what the workers give, whatever the order they finish in: the matrix of every
\* range that can be built, under its key
ExpectedResults ==
    [k \in {rd.key : rd \in Buildable} |->
        build_single_range(CHOOSE rd \in Buildable : rd.key = k).cells]

\* the cell sets of the ranges
ExpectedCells(results) == [k \in DOMAIN results |-> MatrixCells(results[k])]

\* whether a worker is still running
WorkersRunning == \E rd \in DOMAIN futures : futures[rd].state = "running"

\* whether model.ranges, the cells created and the associations are what the
\* ranges extracted in phase 1 determine
FinalFrom(results) ==
    /\ ranges = [k \in DOMAIN RegisteredRanges(defined_names) \cup DOMAIN results |->
                    IF k \in DOMAIN results THEN results[k]
                    ELSE RegisteredRanges(defined_names)[k]]
    /\ DOMAIN cells = DOMAIN cells_before \cup UNION {MatrixCells(results[k]) : k \in DOMAIN results}
    /\ \A m \in 1..Len(formula_metadata) :
          \A f \in AssignedObjects(formula_metadata[m].addr) :
              heap[f].associated_cells =
                  AssociatedCells(formula_metadata[m], ExpectedCells(results))

\* the state part of C22
OneWorkerPerKey ==
    /\ \A rd1, rd2 \in DOMAIN futures : rd1.key = rd2.key => rd1 = rd2
    /\ DOMAIN futures \in {{}, unique_ranges}
    /\ pc = "done" => FinalFrom(ExpectedResults)

\* the step part of C22
MergedAfterWorkers == ranges' /= ranges => ~WorkersRunning

PhaseOrder ==
    {<<"phase1", "phase2">>, <<"phase2", "phase3">>, <<"phase3", "phase4">>,
     <<"phase4", "done">>}

\* whether every range result is merged into model.ranges
AllMerged ==
    /\ ~\E rd \in DOMAIN futures : futures[rd].state /= "collected"
    /\ \A k \in DOMAIN range_results : k \in DOMAIN ranges /\ ranges[k] = range_results[k]

\* whether every placeholder cell is created
AllCreated == \A k \in DOMAIN range_results : MatrixCells(range_results[k]) \subseteq DOMAIN cells

\* one step of build_ranges keeps the order of the phases
PhasesInOrder ==
    /\ pc' /= pc => <<pc, pc'>> \in PhaseOrder
    /\ (unique_ranges' /= unique_ranges \/ formula_metadata' /= formula_metadata) =>
          pc = "phase1"
    /\ futures' /= futures => (fi > Len(formulae) /\ unique_ranges' = unique_ranges)
    /\ ranges' /= ranges => (pc = "phase2" /\ pc' = "phase3")
    /\ cells' /= cells => (pc = "phase3" /\ AllMerged)
    /\ heap' /= heap => (pc = "phase4" /\ AllMerged /\ AllCreated)

\* C23: in every execution of build_ranges the phases occur in order: term
\* extraction and classification of all formulas, then construction of all
\* ranges, then placeholder-cell creation, then association assignment; no
\* placeholder cell is created before every range result has been merged, and
\* no formula's associated_cells is assigned before all placeholder cells have
\* been created.
C23_PhasesInOrder == [][PhasesInOrder]_vars

\* a build that extracted terms, built a range, created a placeholder cell and
\* assigned an association is done
C23_Witness ==
    /\ pc = "done"
    /\ DOMAIN ranges /= {}
    /\ DOMAIN cells /= DOMAIN cells_before
    /\ \E f \in DOMAIN heap : heap[f].associated_cells /= {}

(***************************************************************************)
(* Ranges registered before build_ranges runs, checked under Spec.         *)
(***************************************************************************)
\* C24: a range is immutable once built and shared by key: if a literal range
\* key is already present in model.ranges when build_ranges runs (registered
\* by build_defined_names for a range-bound defined name), build_ranges does
\* not replace that entry, so the defined name and every formula referring to
\* the identical literal key keep sharing one and the same Range object.
C24_RegisteredRangeKept ==
    \A n \in DOMAIN defined_names :
        /\ defined_names[n].address \in DOMAIN ranges
        /\ range_ids[defined_names[n].address] = defined_names[n].range
        /\ ranges[defined_names[n].address] =
              RegisteredRanges(defined_names)[defined_names[n].address]

(***************************************************************************)
(* The column bounds of a reference with item specifiers and a column.     *)
(***************************************************************************)
\* the reference that holds the column component of the request alone
ColumnAlone ==
    resolve_table_ranges(RequestText(request.table, <<>>, request.column), tables,
                         cur_cell_addr)

SameColumns(a, b) == a.min_col = b.min_col /\ a.max_col = b.max_col

\* C25: a reference with an item specifier and a column (or column range) resolves
\* to the column bounds of the named column(s), whichever of the two is written
\* first.
C25_ColumnBoundsFromColumn ==
    (/\ Resolved
     /\ resolved.ok
     /\ request.items /= <<>>
     /\ request.column /= ""
     /\ request.layout \in {"items, column", "column, items"})
    => /\ ColumnAlone.ok
       /\ SameColumns(ResultBounds(resolved.val), ResultBounds(ColumnAlone.val))

(***************************************************************************)
(* A component that is empty once its brackets are stripped.               *)
(***************************************************************************)
HasEmptyComponent ==
    request.layout \in {"empty, items, column", "items, column, empty"}

\* the reference of the request without its component []
WithoutEmpty ==
    resolve_table_ranges(RequestText(request.table, request.items, request.column),
                         tables, cur_cell_addr)

\* C27: a component [] of a reference is ignored: the reference resolves as the
\* reference without that component does, and the component raises no error.
C27_EmptyComponentIgnored ==
    (Resolved /\ HasEmptyComponent) => resolved = WithoutEmpty

(***************************************************************************)
(* Sanitizing the escaped form of a column name.                           *)
(***************************************************************************)
\* C26: sanitizing the escaped form of a column name returns the name itself,
\* also for a name in which an apostrophe is followed by [ ] ' # or @.
C26_SanitizeInvertsEscaping == sanitized.done => sanitized.val = literal

(***************************************************************************)
(* The shape of the range a reference resolves to.                         *)
(***************************************************************************)
RowsInOrder(b) == b.min_row <= b.max_row
ColumnsInOrder(b) == b.min_col <= b.max_col

\* C29: every range string resolve returns has its start row not after its end
\* row and its start column not after its end column.
C29_ResultWellFormed ==
    (Resolved /\ resolved.ok)
    => /\ RowsInOrder(ResultBounds(resolved.val))
       /\ ColumnsInOrder(ResultBounds(resolved.val))

(***************************************************************************)
(* The keys of cells after set_cell_value.                                 *)
(***************************************************************************)
\* the defined names of the Model self that are keys of its cells
NamesAsCells(self) == DOMAIN self.defined_names \cap DOMAIN self.cells

SingleCellAddress(a) == Contains(a, "!") /\ ~Contains(a, ":") /\ ~Contains(a, "[")

\* C28: after build_ranges completes, every element of every formula's
\* associated_cells is a key of model.cells and a single cell address, also for
\* a single-cell term whose cell was not ingested; no range string and no
\* unresolved term is an element.
C28_AssociatedAreCells ==
    pc = "done" =>
        \A i \in 1..Len(formulae) :
            \A a \in FormulaOf(i).associated_cells :
                a \in DOMAIN cells /\ SingleCellAddress(a)

=========================================================================
